---- MODULE Spec2Model ----
(***************************************************************************)
(* Model of the status indicator of the esp-mqtt-telegram firmware:        *)
(*   - the effect controller and the renderer task of rgb_led_manager.c,   *)
(*     at the granularity of their accesses to the shared statics          *)
(*     (effect_task_handle, effect_running, current_effect_config, the     *)
(*     mutex, the pixel);                                                  *)
(*   - the connectivity tracker of esp-app.c, wifi_manager.c and           *)
(*     mqtt_client.c, one action per event handler.                        *)
(***************************************************************************)
EXTENDS Integers, Sequences, FiniteSets, TLC

(***************************************************************************)
(* Bounds of the model.                                                    *)
(***************************************************************************)
\* Task slots the heap has room for: xTaskCreate fails when none is free.
MaxTasks == 2
\* Frames a repeating renderer is followed for (its counter is unbounded).
MaxStep == 1

(***************************************************************************)
(* Program constants.                                                      *)
(***************************************************************************)
\* rgb_led_stop_effect: while (... && retry_count < 50)
StopRetryLimit == 50
\* effect_task: if (!current_effect_config.repeat && step > 100)
OneShotStepLimit == 100

NULL == 0
\* The mutex is free.
NoHolder == "none"
Tasks == 1..MaxTasks

\* rgb_color_t palette (rgb_led_manager.c:23-34), <<red, green, blue>>
RGB_COLOR_OFF == <<0, 0, 0>>
RGB_COLOR_RED == <<255, 0, 0>>
RGB_COLOR_GREEN == <<0, 255, 0>>
RGB_COLOR_BLUE == <<0, 0, 255>>
RGB_COLOR_YELLOW == <<255, 255, 0>>
RGB_COLOR_CYAN == <<0, 255, 255>>

\* rgb_effect_config_t; ZeroConfig is the static's initial value {0}
\* (effect 0 is RGB_EFFECT_SOLID).
Config(e, c, s, b, r) ==
    [effect |-> e, primary_color |-> c, speed_ms |-> s, brightness |-> b, repeat |-> r]

ZeroConfig == Config("SOLID", RGB_COLOR_OFF, 0, 0, FALSE)

\* rgb_status_t values rgb_led_set_status has a case for, and two it has not.
KnownStatus ==
    {"DISCONNECTED", "CONNECTING", "WIFI_CONNECTED", "MQTT_CONNECTED",
     "MQTT_RELAY_ON", "MQTT_RELAY_OFF", "ERROR"}

\* Variant of the switch in which the relay-off case is green as well.
StatusConfigRelayOffGreen(status) ==
    CASE status = "DISCONNECTED"   -> Config("SOLID", RGB_COLOR_OFF, 1000, 0, FALSE)
      [] status = "CONNECTING"     -> Config("BREATHE", RGB_COLOR_BLUE, 1000, 128, TRUE)
      [] status = "WIFI_CONNECTED" -> Config("BLINK", RGB_COLOR_CYAN, 500, 200, TRUE)
      [] status = "MQTT_CONNECTED" -> Config("SOLID", RGB_COLOR_GREEN, 5000, 255, FALSE)
      [] status = "MQTT_RELAY_ON"  -> Config("SOLID", RGB_COLOR_GREEN, 5000, 255, FALSE)
      [] status = "MQTT_RELAY_OFF" -> Config("SOLID", RGB_COLOR_GREEN, 5000, 255, FALSE)
      [] status = "ERROR"          -> Config("STROBE", RGB_COLOR_RED, 200, 255, TRUE)
      [] OTHER                     -> ZeroConfig

\* The switch of rgb_led_set_status: config = {0} with the case's fields set.
StatusConfig(status) ==
    CASE status = "DISCONNECTED"   -> Config("SOLID", RGB_COLOR_OFF, 1000, 0, FALSE)
      [] status = "CONNECTING"     -> Config("BREATHE", RGB_COLOR_BLUE, 1000, 128, TRUE)
      [] status = "WIFI_CONNECTED" -> Config("BLINK", RGB_COLOR_CYAN, 500, 200, TRUE)
      [] status = "MQTT_CONNECTED" -> Config("SOLID", RGB_COLOR_GREEN, 5000, 255, FALSE)
      [] status = "MQTT_RELAY_ON"  -> Config("SOLID", RGB_COLOR_GREEN, 5000, 255, FALSE)
      [] status = "MQTT_RELAY_OFF" -> Config("SOLID", RGB_COLOR_YELLOW, 5000, 255, FALSE)
      [] status = "ERROR"          -> Config("STROBE", RGB_COLOR_RED, 200, 255, TRUE)
      [] OTHER                     -> ZeroConfig

\* apply_brightness: 255 returns early, else channel * brightness / 255
\* in 16-bit arithmetic, stored back into the 8-bit channel.
\* Variant of the scaling whose product is kept in 8 bits.
ScaleChannelNarrow(ch, brightness) == (((ch * brightness) % 256) \div 255) % 256

\* One channel of apply_brightness (lines 364-366).
ScaleChannel(ch, brightness) == (((ch * brightness) % 65536) \div 255) % 256

apply_brightness(color, brightness) ==
    IF brightness = 255 THEN color
    ELSE <<ScaleChannel(color[1], brightness),
           ScaleChannel(color[2], brightness),
           ScaleChannel(color[3], brightness)>>

\* Variant of rgb_led_hsv_to_rgb without the early return for saturation 0.
HsvNoGreyReturn(hue, saturation, value) ==
    LET region == (hue \div 43) % 256
        remainder == ((hue - region * 43) * 6) % 256
        p == ((value * (255 - saturation)) \div 256) % 256
        q == ((value * (255 - ((saturation * remainder) \div 256))) \div 256) % 256
        t == ((value * (255 - ((saturation * (255 - remainder)) \div 256))) \div 256) % 256
    IN  CASE region = 0 -> <<value, t, p>>
          [] region = 1 -> <<q, value, p>>
          [] region = 2 -> <<p, value, t>>
          [] region = 3 -> <<p, q, value>>
          [] region = 4 -> <<t, p, value>>
          [] OTHER      -> <<value, p, q>>

\* rgb_led_hsv_to_rgb (lines 299-337): region, remainder, p, q and t are
\* uint8_t; the products are computed in int and shifted right by 8.
rgb_led_hsv_to_rgb(hue, saturation, value) ==
    IF saturation = 0 THEN <<value, value, value>>
    ELSE LET region == (hue \div 43) % 256
             remainder == ((hue - region * 43) * 6) % 256
             p == ((value * (255 - saturation)) \div 256) % 256
             q == ((value * (255 - ((saturation * remainder) \div 256))) \div 256) % 256
             t == ((value * (255 - ((saturation * (255 - remainder)) \div 256))) \div 256) % 256
         IN  CASE region = 0 -> <<value, t, p>>
               [] region = 1 -> <<q, value, p>>
               [] region = 2 -> <<p, value, t>>
               [] region = 3 -> <<p, q, value>>
               [] region = 4 -> <<t, p, value>>
               [] OTHER      -> <<value, p, q>>

\* The weighted sum of one channel of rgb_led_blend_colors: the operands are
\* cast to uint16_t and the arithmetic is done in int.
BlendSum(c1, c2, blend_factor) == c1 * (255 - blend_factor) + c2 * blend_factor

\* Variant of the blend that divides by 256 (a shift) instead of 255.
BlendChannelShift(c1, c2, blend_factor) ==
    (BlendSum(c1, c2, blend_factor) \div 256) % 256

\* One channel of rgb_led_blend_colors (lines 339-346): the quotient of the
\* sum by 255, stored in the 8-bit channel.
BlendChannel(c1, c2, blend_factor) ==
    (BlendSum(c1, c2, blend_factor) \div 255) % 256

rgb_led_blend_colors(color1, color2, blend_factor) ==
    <<BlendChannel(color1[1], color2[1], blend_factor),
      BlendChannel(color1[2], color2[2], blend_factor),
      BlendChannel(color1[3], color2[3], blend_factor)>>

VARIABLES
    led_strip,              \* the strip handle is non-NULL (init succeeded)
    led,                    \* colour the pixel shows
    effect_task_handle,     \* NULL or the slot of the renderer task
    effect_mutex,           \* NoHolder or the caller holding the mutex
    effect_running,
    current_effect_config,
    global_brightness,
    tasks,                  \* slot -> renderer task (pc, step, config it was spawned for)
    callers,                \* caller task -> position in the operation it runs
    panic,                  \* vTaskDelete was handed a dangling handle and the system aborted
    strip_ok                \* the strip driver carries out the writes it is asked for

VARIABLES
    s_wifi_state,               \* wifi_manager.c
    s_retry_num,
    wifi_bits,                  \* bits set in s_wifi_event_group
    s_mqtt_state,               \* mqtt_client.c
    s_connection_retry_count,
    client,                     \* the esp-mqtt client: "stopped", "started", "connected";
                                \* "none" when mqtt_client_init failed
    device_id_len,              \* strlen(CONFIG_DEVICE_ID), fixed by the build
    s_relay_state,              \* relay_control.c
    relay_pin,                  \* level last written to the relay pin with success
    applied,                    \* status last handed to rgb_led_set_status
    log,                        \* what the handler that ran last did, in order
    app_main                    \* position of app_main and what its wait returned

engineVars == <<led_strip, led, effect_task_handle, effect_mutex, effect_running,
                current_effect_config, global_brightness, tasks, callers, panic,
                strip_ok>>

trackerVars == <<s_wifi_state, s_retry_num, wifi_bits, s_mqtt_state,
                 s_connection_retry_count, client, s_relay_state, applied, log,
                 app_main, device_id_len, relay_pin>>

\* The call of a colour function in progress: its name, its arguments and
\* the colour it returns.
VARIABLES calc

vars == <<engineVars, trackerVars, calc>>

NoCalc == [fn |-> "none", in |-> <<>>, out |-> <<>>]

\* mqtt_client.c 46, 57, 111, 135, 309, 316: every topic is formatted into a
\* char[64].
TopicBufferSize == 64

\* Lengths of CONFIG_DEVICE_ID: one every topic fits with, one with which
\* "<id>/relay/state" takes the whole buffer, one with which "<id>/relay/set"
\* does too.
DeviceIdLens == {8, 52, 54}

\* snprintf(buf, sizeof(buf), "%s/<topic>", CONFIG_DEVICE_ID) returns the
\* length of the untruncated text; the text fits if that is less than the
\* size of the buffer.
TopicFits(topic) == device_id_len + 1 + Len(topic) < TopicBufferSize

\* The topic mqtt_publish_status and mqtt_publish_relay_state publish to:
\* they use what snprintf left in the buffer, truncated or not.
FormatTopic(topic) == IF TopicFits(topic) THEN topic ELSE "truncated"

(***************************************************************************)
(* The renderer's frame: the switch of effect_task on the effect kind.     *)
(***************************************************************************)
\* (sin(step * 0.1) + 1.0) / 2.0 in millionths, for step 0..101.
BreatheTable ==
    <<500000, 549916, 599334, 647760, 694709, 739712, 782321, 822108, 858678, 891663,
      920735, 945603, 966019, 981779, 992724, 998747, 999786, 995832, 986923, 973150,
      954648, 931604, 904248, 872852, 837731, 799236, 757750, 713689, 667494, 619624,
      570559, 520790, 470812, 421127, 372229, 324608, 278739, 235081, 194071, 156116,
      121598, 90861, 64212, 41917, 24198, 11234, 3154, 38, 1917, 8773,
      20537, 37092, 58272, 83866, 113617, 147229, 184366, 224657, 267698, 313061,
      360292, 408918, 458455, 508406, 558274, 607559, 655770, 702424, 747056, 789219,
      828493, 864484, 896833, 925218, 949354, 968999, 983959, 994084, 999271, 999470,
      994679, 984944, 970365, 951085, 927299, 899243, 867198, 831484, 792458, 750510,
      706059, 659549, 611444, 562227, 512387, 462424, 412836, 364119, 316760, 271232,
      227989, 187464>>

\* Whether the iteration writes the pixel: SOLID writes at step 0 only.
FrameWrites(cfg, step) == cfg.effect # "SOLID" \/ step = 0

\* The colour the iteration writes, for the kinds the specifications draw
\* (SOLID, BLINK, BREATHE, STROBE) and for the kinds the switch has no case
\* for (RAINBOW_CHASE, COLOR_WIPE, THEATER_CHASE), which take its default:
\* off.  PULSE, FADE_IN_OUT, FIRE and SPARKLE are not drawn.
FrameColor(cfg, step) ==
    CASE cfg.effect = "SOLID" ->
            apply_brightness(cfg.primary_color, cfg.brightness)
      [] cfg.effect = "BLINK" ->
            apply_brightness(IF step % 2 = 0 THEN cfg.primary_color ELSE RGB_COLOR_OFF,
                             cfg.brightness)
      [] cfg.effect = "BREATHE" ->
            apply_brightness(cfg.primary_color,
                             (BreatheTable[step + 1] * cfg.brightness) \div 1000000)
      [] cfg.effect = "RAINBOW" ->
            rgb_led_hsv_to_rgb((step * 10) % 360, 100, cfg.brightness)
      [] cfg.effect = "STROBE" ->
            IF step % 10 < 2
            THEN apply_brightness(cfg.primary_color, cfg.brightness)
            ELSE RGB_COLOR_OFF
      [] OTHER -> RGB_COLOR_OFF

(***************************************************************************)
(* Tasks.                                                                  *)
(***************************************************************************)
FreeTask == [pc |-> "free", step |-> 0, born |-> ZeroConfig]
\* A renderer past its loop: its frame counter is dead from here on.
Leaving == [pc |-> "clear", step |-> 0, born |-> ZeroConfig]

IdleCaller ==
    [pc |-> "idle", op |-> "none", status |-> "none", arg |-> ZeroConfig,
     color |-> RGB_COLOR_OFF, retry_count |-> 0, h |-> NULL, created |-> FALSE,
     found |-> FALSE, cleared |-> FALSE, res |-> "none"]

Alive(t) == tasks[t].pc # "free"
\* The task is in its while loop (it has not reached the code after it).
Rendering(t) == tasks[t].pc \in {"loop", "frame", "tail"}

\* Connectivity state when app_main is about to start the link (line 336):
\* the statics hold their initialisers, relay_control_init has switched the
\* relay off, mqtt_client_init has built a client that is not started, and
\* line 230 has applied the Disconnected status.
InitTrackerWith(lens) ==
    /\ calc = NoCalc
    /\ device_id_len \in lens
    /\ s_wifi_state = "DISCONNECTED"
    /\ s_retry_num = 0
    /\ wifi_bits = {}
    /\ s_mqtt_state = "DISCONNECTED"
    /\ s_connection_retry_count = 0
    /\ client = "stopped"
    /\ s_relay_state = "OFF"
    /\ relay_pin = "OFF"
    /\ applied = "DISCONNECTED"
    /\ log = <<>>
    /\ app_main = [pc |-> "336", wait_result |-> "none"]

InitTracker == InitTrackerWith({8})

InitEngine ==
    /\ led_strip = TRUE
    /\ led = RGB_COLOR_OFF
    /\ effect_task_handle = NULL
    /\ effect_mutex = NoHolder
    /\ effect_running = FALSE
    /\ current_effect_config = ZeroConfig
    /\ global_brightness = 255
    /\ tasks = [t \in Tasks |-> FreeTask]
    /\ panic = FALSE
    /\ strip_ok = TRUE

UnchangedShared ==
    UNCHANGED <<led_strip, led, effect_task_handle, effect_mutex, effect_running,
                current_effect_config, global_brightness, tasks, panic>>

(***************************************************************************)
(* rgb_led_stop_effect (lines 181-206), one action per access to the       *)
(* shared statics.  It runs on its own (op "stop") or as the first step of *)
(* rgb_led_start_effect (op "start").                                      *)
(***************************************************************************)
\* Where the caller goes when rgb_led_stop_effect returns ESP_OK.
AfterStop(c, rec) ==
    IF rec.op = "stop"
    THEN [rec EXCEPT !.pc = "idle", !.res = "ESP_OK", !.retry_count = 0]
    ELSE [rec EXCEPT !.pc = "start153", !.retry_count = 0]

\* Variant of line 183 without its test: the body runs with the handle absent.
StopEntryUnguarded(c, rec) ==
    [rec EXCEPT !.pc = "stop184", !.found = TRUE]

\* line 183: if (effect_task_handle) { ... } return ESP_OK;
StopEntry(c, rec) ==
    IF effect_task_handle # NULL
    THEN [rec EXCEPT !.pc = "stop184", !.found = TRUE]
    ELSE AfterStop(c, rec)

\* The call rgb_led_stop_effect().
CallStop(c) ==
    /\ ~panic
    /\ UNCHANGED <<trackerVars, strip_ok, calc>>
    /\ callers[c].pc = "idle"
    /\ callers' = [callers EXCEPT ![c] = StopEntry(c, [IdleCaller EXCEPT !.op = "stop"])]
    /\ UnchangedShared

\* line 184: effect_running = false;
Stop184(c) ==
    /\ ~panic
    /\ UNCHANGED <<trackerVars, strip_ok, calc>>
    /\ callers[c].pc = "stop184"
    /\ effect_running' = FALSE
    /\ callers' = [callers EXCEPT ![c].pc = "stop188", ![c].retry_count = 0]
    /\ UNCHANGED <<led_strip, led, effect_task_handle, effect_mutex,
                   current_effect_config, global_brightness, tasks, panic>>

\* Variant of lines 188-191 without the wait: the caller goes on at once.
Stop188NoWait(c) ==
    /\ ~panic
    /\ UNCHANGED <<trackerVars, strip_ok, calc>>
    /\ callers[c].pc = "stop188"
    /\ callers' = [callers EXCEPT ![c].pc = "stop194"]
    /\ UnchangedShared

\* lines 188-191: while (effect_task_handle != NULL && retry_count < 50)
\*                  { vTaskDelay(10 ms); retry_count++; }
Stop188(c) ==
    /\ ~panic
    /\ UNCHANGED <<trackerVars, strip_ok, calc>>
    /\ callers[c].pc = "stop188"
    /\ callers' = [callers EXCEPT ![c] =
         IF effect_task_handle # NULL /\ @.retry_count < StopRetryLimit
         THEN [@ EXCEPT !.retry_count = @ + 1]
         ELSE [@ EXCEPT !.pc = "stop194"]]
    /\ UnchangedShared

\* The same loop taken as one step, for the runs in which several callers
\* wait at once: the caller leaves it when it reads a NULL handle, or with
\* the handle still set once its 50 delays have passed (the other tasks may
\* take no step in that time).
Wait188(c) ==
    /\ ~panic
    /\ UNCHANGED <<trackerVars, strip_ok, calc>>
    /\ callers[c].pc = "stop188"
    /\ callers' = [callers EXCEPT ![c] =
         IF effect_task_handle # NULL
         THEN [@ EXCEPT !.pc = "stop194", !.retry_count = StopRetryLimit]
         ELSE [@ EXCEPT !.pc = "stop194"]]
    /\ UnchangedShared

\* Variant of line 194 whose clear (lines 199-201) sits inside the forced
\* termination: a renderer that left in time leaves the pixel to itself.
Stop194ClearInside(c) ==
    /\ ~panic
    /\ UNCHANGED <<trackerVars, strip_ok, calc>>
    /\ callers[c].pc = "stop194"
    /\ callers' = [callers EXCEPT ![c] =
         IF effect_task_handle # NULL
         THEN [@ EXCEPT !.pc = "stop195", !.h = effect_task_handle]
         ELSE AfterStop(c, @)]
    /\ UnchangedShared

\* line 194: if (effect_task_handle != NULL)
Stop194(c) ==
    /\ ~panic
    /\ UNCHANGED <<trackerVars, strip_ok, calc>>
    /\ callers[c].pc = "stop194"
    /\ callers' = [callers EXCEPT ![c] =
         IF effect_task_handle # NULL
         THEN [@ EXCEPT !.pc = "stop195", !.h = effect_task_handle]
         ELSE [@ EXCEPT !.pc = "stop199"]]
    /\ UnchangedShared

\* Variant of line 195 that forgets the renderer without deleting it.
Stop195NoDelete(c) ==
    /\ ~panic
    /\ UNCHANGED <<trackerVars, strip_ok, calc>>
    /\ callers[c].pc = "stop195"
    /\ callers' = [callers EXCEPT ![c].pc = "stop196"]
    /\ UnchangedShared

\* line 195: vTaskDelete(effect_task_handle).  The handle is a plain static:
\* the build may pass the value line 194 loaded or load it again.  A NULL
\* handle deletes the calling task; a handle whose task has already deleted
\* itself is dangling, and the call either goes unnoticed or aborts.
Stop195(c) ==
    /\ ~panic
    /\ UNCHANGED <<trackerVars, strip_ok, calc>>
    /\ callers[c].pc = "stop195"
    /\ \E target \in {callers[c].h, effect_task_handle} :
         IF target = NULL
         THEN /\ callers' = [callers EXCEPT ![c].pc = "deleted"]
              /\ UNCHANGED <<tasks, panic>>
         ELSE IF Alive(target)
         THEN /\ tasks' = [tasks EXCEPT ![target] = FreeTask]
              /\ callers' = [callers EXCEPT ![c].pc = "stop196"]
              /\ UNCHANGED panic
         ELSE /\ \E aborts \in BOOLEAN :
                   /\ panic' = aborts
                   /\ callers' = [callers EXCEPT ![c].pc = "stop196"]
              /\ UNCHANGED tasks
    /\ UNCHANGED <<led_strip, led, effect_task_handle, effect_mutex, effect_running,
                   current_effect_config, global_brightness>>

\* line 196: effect_task_handle = NULL;
Stop196(c) ==
    /\ ~panic
    /\ UNCHANGED <<trackerVars, strip_ok, calc>>
    /\ callers[c].pc = "stop196"
    /\ effect_task_handle' = NULL
    /\ callers' = [callers EXCEPT ![c].pc = "stop199", ![c].h = NULL]
    /\ UNCHANGED <<led_strip, led, effect_mutex, effect_running,
                   current_effect_config, global_brightness, tasks, panic>>

\* lines 199-205: if (led_strip) led_strip_clear(led_strip); return ESP_OK;
\* The result of led_strip_clear is not looked at.
Stop199(c) ==
    /\ ~panic
    /\ UNCHANGED <<trackerVars, strip_ok, calc>>
    /\ callers[c].pc = "stop199"
    /\ led' = IF led_strip /\ strip_ok THEN RGB_COLOR_OFF ELSE led
    /\ callers' = [callers EXCEPT ![c] =
         AfterStop(c, [@ EXCEPT !.cleared = led_strip /\ strip_ok])]
    /\ UNCHANGED <<led_strip, effect_task_handle, effect_mutex, effect_running,
                   current_effect_config, global_brightness, tasks, panic>>

(***************************************************************************)
(* rgb_led_start_effect (lines 144-179) and its callers.                   *)
(***************************************************************************)
\* Variant of lines 146-151 that does not call rgb_led_stop_effect.
StartEntryNoStop(c, rec) ==
    IF ~led_strip
    THEN [rec EXCEPT !.pc = "idle", !.res = "ESP_ERR_INVALID_ARG"]
    ELSE [rec EXCEPT !.pc = "start153"]

\* lines 146-151: the argument check, then rgb_led_stop_effect().
StartEntry(c, rec) ==
    IF ~led_strip
    THEN [rec EXCEPT !.pc = "idle", !.res = "ESP_ERR_INVALID_ARG"]
    ELSE StopEntry(c, rec)

\* The call rgb_led_start_effect(&cfg).
CallStart(c, cfg) ==
    /\ ~panic
    /\ UNCHANGED <<trackerVars, strip_ok, calc>>
    /\ callers[c].pc = "idle"
    /\ callers' = [callers EXCEPT ![c] =
         StartEntry(c, [IdleCaller EXCEPT !.op = "start", !.arg = cfg])]
    /\ UnchangedShared

\* rgb_led_set_status (lines 208-270): the switch, whose default returns
\* ESP_ERR_INVALID_ARG, then rgb_led_start_effect(&config).
CallSetStatus(c, status) ==
    /\ ~panic
    /\ UNCHANGED <<trackerVars, strip_ok, calc>>
    /\ callers[c].pc = "idle"
    /\ callers' = [callers EXCEPT ![c] =
         IF status \in KnownStatus
         THEN StartEntry(c, [IdleCaller EXCEPT !.op = "start", !.status = status,
                                               !.arg = StatusConfig(status)])
         ELSE [IdleCaller EXCEPT !.op = "start", !.status = status,
                                 !.res = "ESP_ERR_INVALID_ARG"]]
    /\ UnchangedShared

\* lines 153-156: xSemaphoreTake(effect_mutex, portMAX_DELAY);
\*                current_effect_config = *config;
Start153(c) ==
    /\ ~panic
    /\ UNCHANGED <<trackerVars, strip_ok, calc>>
    /\ callers[c].pc = "start153"
    /\ effect_mutex = NoHolder
    /\ effect_mutex' = c
    /\ current_effect_config' = callers[c].arg
    /\ callers' = [callers EXCEPT ![c].pc = "start157"]
    /\ UNCHANGED <<led_strip, led, effect_task_handle, effect_running,
                   global_brightness, tasks, panic>>

\* line 157: effect_running = true;
Start157(c) ==
    /\ ~panic
    /\ UNCHANGED <<trackerVars, strip_ok, calc>>
    /\ callers[c].pc = "start157"
    /\ effect_running' = TRUE
    /\ callers' = [callers EXCEPT ![c].pc = "start160"]
    /\ UNCHANGED <<led_strip, led, effect_task_handle, effect_mutex,
                   current_effect_config, global_brightness, tasks, panic>>

\* The slot xTaskCreate allocates the task in.
NewTask == CHOOSE t \in Tasks : ~Alive(t) /\ \A u \in Tasks : ~Alive(u) => t <= u

\* lines 160-167: xTaskCreate(effect_task, ..., &effect_task_handle).  It
\* fails when the heap has no room (always, when no slot is free) and then
\* leaves the handle as it was.
Start160(c) ==
    /\ ~panic
    /\ UNCHANGED <<trackerVars, strip_ok, calc>>
    /\ callers[c].pc = "start160"
    /\ \E pass \in BOOLEAN :
         IF pass /\ \E t \in Tasks : ~Alive(t)
         THEN /\ tasks' = [tasks EXCEPT ![NewTask] =
                    [pc |-> "loop", step |-> 0, born |-> current_effect_config]]
              /\ effect_task_handle' = NewTask
              /\ callers' = [callers EXCEPT ![c].pc = "start169", ![c].created = TRUE]
         ELSE /\ callers' = [callers EXCEPT ![c].pc = "start169", ![c].created = FALSE]
              /\ UNCHANGED <<tasks, effect_task_handle>>
    /\ UNCHANGED <<led_strip, led, effect_mutex, effect_running,
                   current_effect_config, global_brightness, panic>>

\* Variant of lines 169-178 without the xSemaphoreGive.
Start169KeepsLock(c) ==
    /\ ~panic
    /\ UNCHANGED <<trackerVars, strip_ok, calc>>
    /\ callers[c].pc = "start169"
    /\ callers' = [callers EXCEPT ![c] =
         IF @.created
         THEN [@ EXCEPT !.pc = "idle", !.res = "ESP_OK", !.created = FALSE]
         ELSE [@ EXCEPT !.pc = "start172"]]
    /\ UnchangedShared

\* lines 169-178: xSemaphoreGive(effect_mutex); if (result != pdPASS) ...;
\*                return ESP_OK;
Start169(c) ==
    /\ ~panic
    /\ UNCHANGED <<trackerVars, strip_ok, calc>>
    /\ callers[c].pc = "start169"
    /\ effect_mutex' = NoHolder
    /\ callers' = [callers EXCEPT ![c] =
         IF @.created
         THEN [@ EXCEPT !.pc = "idle", !.res = "ESP_OK", !.created = FALSE]
         ELSE [@ EXCEPT !.pc = "start172"]]
    /\ UNCHANGED <<led_strip, led, effect_task_handle, effect_running,
                   current_effect_config, global_brightness, tasks, panic>>

\* Variant of lines 172-174 that returns the error with the flag still set.
Start172KeepsRunning(c) ==
    /\ ~panic
    /\ UNCHANGED <<trackerVars, strip_ok, calc>>
    /\ callers[c].pc = "start172"
    /\ callers' = [callers EXCEPT ![c].pc = "idle", ![c].res = "ESP_ERR_NO_MEM"]
    /\ UnchangedShared

\* lines 172-174: effect_running = false; return ESP_ERR_NO_MEM;
Start172(c) ==
    /\ ~panic
    /\ UNCHANGED <<trackerVars, strip_ok, calc>>
    /\ callers[c].pc = "start172"
    /\ effect_running' = FALSE
    /\ callers' = [callers EXCEPT ![c].pc = "idle", ![c].res = "ESP_ERR_NO_MEM"]
    /\ UNCHANGED <<led_strip, led, effect_task_handle, effect_mutex,
                   current_effect_config, global_brightness, tasks, panic>>

(***************************************************************************)
(* rgb_led_set_color (lines 103-119); rgb_led_off is                       *)
(* rgb_led_set_color(RGB_COLOR_OFF).                                       *)
(***************************************************************************)
\* Variant of rgb_led_set_color without the check of led_strip.
CallSetColorUnchecked(c, color) ==
    /\ ~panic
    /\ UNCHANGED <<trackerVars, strip_ok, calc>>
    /\ callers[c].pc = "idle"
    /\ callers' = [callers EXCEPT ![c] =
         [IdleCaller EXCEPT !.op = "set_color", !.color = color, !.pc = "color109"]]
    /\ UnchangedShared

\* lines 105-107: the check of led_strip, before xSemaphoreTake (line 109).
CallSetColor(c, color) ==
    /\ ~panic
    /\ UNCHANGED <<trackerVars, strip_ok, calc>>
    /\ callers[c].pc = "idle"
    /\ callers' = [callers EXCEPT ![c] =
         IF ~led_strip
         THEN [IdleCaller EXCEPT !.op = "set_color", !.color = color,
                                 !.res = "ESP_ERR_INVALID_STATE"]
         ELSE [IdleCaller EXCEPT !.op = "set_color", !.color = color,
                                 !.pc = "color109"]]
    /\ UnchangedShared

\* Variant of line 109 that goes on to the write without taking the mutex.
Color109NoLock(c) ==
    /\ ~panic
    /\ UNCHANGED <<trackerVars, strip_ok, calc>>
    /\ callers[c].pc = "color109"
    /\ callers' = [callers EXCEPT ![c].pc = "color111"]
    /\ UnchangedShared

\* line 109: xSemaphoreTake(effect_mutex, portMAX_DELAY);
Color109(c) ==
    /\ ~panic
    /\ UNCHANGED <<trackerVars, strip_ok, calc>>
    /\ callers[c].pc = "color109"
    /\ effect_mutex = NoHolder
    /\ effect_mutex' = c
    /\ callers' = [callers EXCEPT ![c].pc = "color111"]
    /\ UNCHANGED <<led_strip, led, effect_task_handle, effect_running,
                   current_effect_config, global_brightness, tasks, panic>>

\* lines 111-118: apply_brightness(&color, global_brightness); the pixel is
\* set and refreshed; xSemaphoreGive; return of the driver's result.
Color111(c) ==
    /\ ~panic
    /\ UNCHANGED <<trackerVars, strip_ok, calc>>
    /\ callers[c].pc = "color111"
    /\ led' = IF strip_ok THEN apply_brightness(callers[c].color, global_brightness)
              ELSE led
    /\ effect_mutex' = NoHolder
    /\ callers' = [callers EXCEPT ![c].pc = "idle",
                                  ![c].res = IF strip_ok THEN "ESP_OK" ELSE "ESP_FAIL"]
    /\ UNCHANGED <<led_strip, effect_task_handle, effect_running,
                   current_effect_config, global_brightness, tasks, panic>>

(***************************************************************************)
(* effect_task (lines 369-519).                                            *)
(***************************************************************************)
\* line 376: while (effect_running && led_strip)
TaskLoop(t) ==
    /\ ~panic
    /\ UNCHANGED <<trackerVars, strip_ok, calc>>
    /\ tasks[t].pc = "loop"
    /\ tasks' = [tasks EXCEPT ![t] =
         IF effect_running /\ led_strip THEN [@ EXCEPT !.pc = "frame"] ELSE Leaving]
    /\ UNCHANGED <<led_strip, led, effect_task_handle, effect_mutex, effect_running,
                   current_effect_config, global_brightness, callers, panic>>

\* Variant of the frame in which a write the driver fails ends the loop.
TaskFrameStopsOnFailure(t) ==
    /\ ~panic
    /\ UNCHANGED <<trackerVars, strip_ok, calc>>
    /\ tasks[t].pc = "frame"
    /\ led' = IF FrameWrites(current_effect_config, tasks[t].step) /\ strip_ok
              THEN FrameColor(current_effect_config, tasks[t].step)
              ELSE led
    /\ tasks' = [tasks EXCEPT ![t] =
         IF FrameWrites(current_effect_config, tasks[t].step) /\ ~strip_ok
         THEN Leaving ELSE [@ EXCEPT !.pc = "tail"]]
    /\ UNCHANGED <<led_strip, effect_task_handle, effect_mutex, effect_running,
                   current_effect_config, global_brightness, callers, panic>>

\* lines 377-497: the frame of the configured kind, written to the pixel.  A
\* write the driver fails is logged (SOLID, BLINK) or not looked at, and the
\* iteration goes on.
TaskFrame(t) ==
    /\ ~panic
    /\ UNCHANGED <<trackerVars, strip_ok, calc>>
    /\ tasks[t].pc = "frame"
    /\ led' = IF FrameWrites(current_effect_config, tasks[t].step) /\ strip_ok
              THEN FrameColor(current_effect_config, tasks[t].step)
              ELSE led
    /\ tasks' = [tasks EXCEPT ![t].pc = "tail"]
    /\ UNCHANGED <<led_strip, effect_task_handle, effect_mutex, effect_running,
                   current_effect_config, global_brightness, callers, panic>>

\* Variant of line 501 with the budget one frame longer.
TaskTailLonger(t) ==
    /\ ~panic
    /\ UNCHANGED <<trackerVars, strip_ok, calc>>
    /\ tasks[t].pc = "tail"
    /\ current_effect_config.repeat => tasks[t].step < MaxStep
    /\ LET step == tasks[t].step + 1
       IN  IF ~current_effect_config.repeat /\ step > OneShotStepLimit + 1
           THEN /\ effect_running' = FALSE
                /\ tasks' = [tasks EXCEPT ![t] = Leaving]
           ELSE /\ tasks' = [tasks EXCEPT ![t].pc = "loop", ![t].step = step]
                /\ UNCHANGED effect_running
    /\ UNCHANGED <<led_strip, led, effect_task_handle, effect_mutex,
                   current_effect_config, global_brightness, callers, panic>>

\* lines 499-511: step++; a one-shot effect past its budget clears
\* effect_running and leaves the loop; else the task sleeps to the next frame.
\* A repeating effect is followed for MaxStep frames (the uint32_t counter
\* stays far from its wrap).
TaskTail(t) ==
    /\ ~panic
    /\ UNCHANGED <<trackerVars, strip_ok, calc>>
    /\ tasks[t].pc = "tail"
    /\ current_effect_config.repeat => tasks[t].step < MaxStep
    /\ LET step == tasks[t].step + 1
       IN  IF ~current_effect_config.repeat /\ step > OneShotStepLimit
           THEN /\ effect_running' = FALSE
                /\ tasks' = [tasks EXCEPT ![t] = Leaving]
           ELSE /\ tasks' = [tasks EXCEPT ![t].pc = "loop", ![t].step = step]
                /\ UNCHANGED effect_running
    /\ UNCHANGED <<led_strip, led, effect_task_handle, effect_mutex,
                   current_effect_config, global_brightness, callers, panic>>

\* Variant of lines 515-516 in the other order: the handle is marked absent
\* before the pixel is cleared.
TaskClearMarksFirst(t) ==
    /\ ~panic
    /\ UNCHANGED <<trackerVars, strip_ok, calc>>
    /\ tasks[t].pc = "clear"
    /\ effect_task_handle' = NULL
    /\ tasks' = [tasks EXCEPT ![t].pc = "null"]
    /\ UNCHANGED <<led_strip, led, effect_mutex, effect_running,
                   current_effect_config, global_brightness, callers, panic>>

\* line 515: led_strip_clear(led_strip);
TaskClear(t) ==
    /\ ~panic
    /\ UNCHANGED <<trackerVars, strip_ok, calc>>
    /\ tasks[t].pc = "clear"
    /\ led' = IF strip_ok THEN RGB_COLOR_OFF ELSE led
    /\ tasks' = [tasks EXCEPT ![t].pc = "null"]
    /\ UNCHANGED <<led_strip, effect_task_handle, effect_mutex, effect_running,
                   current_effect_config, global_brightness, callers, panic>>

\* lines 516-518: effect_task_handle = NULL; vTaskDelete(NULL);  (nothing
\* shared is touched between the two).
TaskExit(t) ==
    /\ ~panic
    /\ UNCHANGED <<trackerVars, strip_ok, calc>>
    /\ tasks[t].pc = "null"
    /\ effect_task_handle' = NULL
    /\ tasks' = [tasks EXCEPT ![t] = FreeTask]
    /\ UNCHANGED <<led_strip, led, effect_mutex, effect_running,
                   current_effect_config, global_brightness, callers, panic>>

TaskStep(t) ==
    \/ TaskLoop(t)
    \/ TaskFrame(t)
    \/ TaskTail(t)
    \/ TaskClear(t)
    \/ TaskExit(t)

\* A step of caller c inside rgb_led_stop_effect or rgb_led_start_effect,
\* but for the wait loop of lines 188-191.
CallerStep(c) ==
    \/ Stop184(c)
    \/ Stop194(c)
    \/ Stop195(c)
    \/ Stop196(c)
    \/ Stop199(c)
    \/ Start153(c)
    \/ Start157(c)
    \/ Start160(c)
    \/ Start169(c)
    \/ Start172(c)

\* A step of caller c inside rgb_led_set_color.
ColorStep(c) ==
    \/ Color109(c)
    \/ Color111(c)

(***************************************************************************)
(* SpecSolo: one task (app_main) calls into the effect controller.         *)
(***************************************************************************)
\* A one-shot blink, as a direct caller of rgb_led_start_effect may pass.
OneShotBlink == Config("BLINK", RGB_COLOR_RED, 100, 255, FALSE)

SoloConfigs == {OneShotBlink}
SoloStatuses == {"WIFI_CONNECTED", "MQTT_RELAY_ON", "CUSTOM"}
SoloColors == {RGB_COLOR_OFF, RGB_COLOR_RED}

InitSolo ==
    /\ InitEngine
    /\ InitTracker
    /\ callers = [c \in {"main"} |-> IdleCaller]

NextSolo ==
    \/ \E cfg \in SoloConfigs : CallStart("main", cfg)
    \/ \E status \in SoloStatuses : CallSetStatus("main", status)
    \/ \E color \in SoloColors : CallSetColor("main", color)
    \/ CallStop("main")
    \/ CallerStep("main")
    \/ Stop188("main")
    \/ ColorStep("main")
    \/ \E t \in Tasks : TaskStep(t)

SpecSolo == InitSolo /\ [][NextSolo]_vars

(***************************************************************************)
(* Spec: the link callback (event loop task) and the session callback      *)
(* (MQTT task) apply statuses concurrently: the link callback              *)
(* WIFI_CONNECTED (esp-app.c:45), the session callback ERROR               *)
(* (esp-app.c:101).                                                        *)
(***************************************************************************)
DuoCallers == {"sys_evt", "mqtt"}
DuoStatus(c) == IF c = "sys_evt" THEN "WIFI_CONNECTED" ELSE "ERROR"

Init ==
    /\ InitEngine
    /\ InitTracker
    /\ callers = [c \in DuoCallers |-> IdleCaller]

Next ==
    \/ \E c \in DuoCallers : CallSetStatus(c, DuoStatus(c))
    \/ \E c \in DuoCallers : CallerStep(c)
    \/ \E c \in DuoCallers : Wait188(c)
    \/ \E t \in Tasks : TaskStep(t)

Spec == Init /\ [][Next]_vars

(***************************************************************************)
(* SpecLock: the link callback applies a status (rgb_led_start_effect)     *)
(* while another task switches the pixel off (rgb_led_off), so that the    *)
(* two contend for effect_mutex.  A task that runs keeps running, and a    *)
(* task blocked in xSemaphoreTake gets the mutex once it is free often     *)
(* enough (FreeRTOS hands a released mutex to the waiting task).           *)
(***************************************************************************)
LockCallers == {"sys_evt", "mqtt"}

InitLock ==
    /\ InitEngine
    /\ InitTracker
    /\ callers = [c \in LockCallers |-> IdleCaller]

NextLock ==
    \/ CallSetStatus("sys_evt", "WIFI_CONNECTED")
    \/ CallSetColor("mqtt", RGB_COLOR_OFF)
    \/ \E c \in LockCallers : CallerStep(c)
    \/ \E c \in LockCallers : Wait188(c)
    \/ \E c \in LockCallers : ColorStep(c)
    \/ \E t \in Tasks : TaskStep(t)

FairLock ==
    /\ \A c \in LockCallers : WF_vars(CallerStep(c) \/ Wait188(c) \/ ColorStep(c))
    /\ \A c \in LockCallers : SF_vars(Start153(c)) /\ SF_vars(Color109(c))

SpecLock == InitLock /\ [][NextLock]_vars /\ FairLock

(***************************************************************************)
(* SpecPixel: one task calls every entry point of the effect controller,   *)
(* with the peripheral initialised or not, while the strip driver may stop *)
(* and resume carrying out writes.                                         *)
(***************************************************************************)
\* rgb_led_set_brightness (lines 346-350): one store, no lock.
CallSetBrightness(c, brightness) ==
    /\ ~panic
    /\ UNCHANGED <<trackerVars, strip_ok, calc>>
    /\ callers[c].pc = "idle"
    /\ global_brightness' = brightness
    /\ callers' = [callers EXCEPT ![c] =
         [IdleCaller EXCEPT !.op = "set_brightness", !.res = "ESP_OK"]]
    /\ UNCHANGED <<led_strip, led, effect_task_handle, effect_mutex, effect_running,
                   current_effect_config, tasks, panic>>

\* The driver starts or stops failing led_strip_set_pixel / led_strip_refresh
\* / led_strip_clear.
StripFault ==
    /\ ~panic
    /\ strip_ok' = ~strip_ok
    /\ UNCHANGED <<trackerVars, calc>>
    /\ UNCHANGED <<led_strip, led, effect_task_handle, effect_mutex, effect_running,
                   current_effect_config, global_brightness, tasks, callers, panic>>

\* The kinds of rgb_effect_t below RGB_EFFECT_MAX.
EffectKinds ==
    {"SOLID", "BLINK", "BREATHE", "RAINBOW", "RAINBOW_CHASE", "PULSE", "STROBE",
     "FADE_IN_OUT", "COLOR_WIPE", "THEATER_CHASE", "FIRE", "SPARKLE"}

RepeatingBlink == Config("BLINK", RGB_COLOR_RED, 100, 255, TRUE)
\* A config whose kind is RGB_EFFECT_MAX, which names no effect.
UnknownKind == Config("MAX", RGB_COLOR_RED, 100, 255, TRUE)
PixelConfigs == {RepeatingBlink, UnknownKind}
PixelStatuses == {"WIFI_CONNECTED", "CUSTOM"}
PixelColors == {RGB_COLOR_OFF, RGB_COLOR_RED}
PixelBrightness == {0, 255}

\* rgb_led_manager_init has succeeded, or it has failed and app_main goes on
\* without the indicator (esp-app.c 205-208).
InitPixel ==
    /\ led_strip \in BOOLEAN
    /\ led = RGB_COLOR_OFF
    /\ effect_task_handle = NULL
    /\ effect_mutex = NoHolder
    /\ effect_running = FALSE
    /\ current_effect_config = ZeroConfig
    /\ global_brightness = 255
    /\ tasks = [t \in Tasks |-> FreeTask]
    /\ panic = FALSE
    /\ strip_ok = TRUE
    /\ InitTracker
    /\ callers = [c \in {"main"} |-> IdleCaller]

NextPixel ==
    \/ \E cfg \in PixelConfigs : CallStart("main", cfg)
    \/ \E status \in PixelStatuses : CallSetStatus("main", status)
    \/ \E color \in PixelColors : CallSetColor("main", color)
    \/ \E brightness \in PixelBrightness : CallSetBrightness("main", brightness)
    \/ CallStop("main")
    \/ CallerStep("main")
    \/ Wait188("main")
    \/ ColorStep("main")
    \/ StripFault
    \/ \E t \in Tasks : TaskStep(t)

SpecPixel == InitPixel /\ [][NextPixel]_vars

(***************************************************************************)
(* SpecStatus: one task applies every status of rgb_status_t below         *)
(* RGB_STATUS_MAX, with the peripheral initialised or not.                 *)
(***************************************************************************)
AllStatuses == KnownStatus \cup {"CUSTOM"}

NextStatus ==
    \/ \E status \in AllStatuses : CallSetStatus("main", status)
    \/ CallerStep("main")
    \/ Wait188("main")
    \/ \E t \in Tasks : TaskStep(t)

SpecStatus == InitPixel /\ [][NextStatus]_vars

(***************************************************************************)
(* One caller starting and stopping effects of the kinds meant for strips   *)
(* of several pixels, and of the single-pixel kinds next to them.           *)
(***************************************************************************)
StripKinds == {"RAINBOW_CHASE", "COLOR_WIPE", "THEATER_CHASE"}

KindConfigs ==
    {Config(kind, RGB_COLOR_RED, 100, 200, TRUE) :
        kind \in StripKinds \cup {"BLINK", "RAINBOW"}}

NextKinds ==
    \/ \E cfg \in KindConfigs : CallStart("main", cfg)
    \/ CallStop("main")
    \/ CallerStep("main")
    \/ Wait188("main")
    \/ \E t \in Tasks : TaskStep(t)

SpecKinds == InitPixel /\ [][NextKinds]_vars

(***************************************************************************)
(* The colour functions, called one at a time on arguments drawn from the   *)
(* sets below: rgb_led_blend_colors, apply_brightness, rgb_led_hsv_to_rgb.  *)
(***************************************************************************)
\* 256 colours in which every channel takes every 8-bit value.
ColorRamp == {<<x, (x * 7 + 3) % 256, 255 - x>> : x \in 0..255}

ColorSamples ==
    {RGB_COLOR_OFF, RGB_COLOR_RED, RGB_COLOR_CYAN, <<255, 255, 255>>,
     <<1, 128, 254>>, <<127, 2, 200>>}

BlendFactors == {0, 1, 127, 128, 254, 255}

Saturations == {1, 100, 128, 255}

Values == {0, 1, 100, 128, 200, 255}

CallBlend(color1, color2, blend_factor) ==
    /\ calc = NoCalc
    /\ calc' = [fn |-> "blend",
                in |-> [color1 |-> color1, color2 |-> color2,
                        blend_factor |-> blend_factor],
                out |-> rgb_led_blend_colors(color1, color2, blend_factor)]
    /\ UNCHANGED <<engineVars, trackerVars>>

CallApplyBrightness(color, brightness) ==
    /\ calc = NoCalc
    /\ calc' = [fn |-> "apply_brightness",
                in |-> [color |-> color, brightness |-> brightness],
                out |-> apply_brightness(color, brightness)]
    /\ UNCHANGED <<engineVars, trackerVars>>

CallHsv(hue, saturation, value) ==
    /\ calc = NoCalc
    /\ calc' = [fn |-> "hsv_to_rgb",
                in |-> [hue |-> hue, saturation |-> saturation, value |-> value],
                out |-> rgb_led_hsv_to_rgb(hue, saturation, value)]
    /\ UNCHANGED <<engineVars, trackerVars>>

\* The call returns; the next one can be made.
CalcReturn ==
    /\ calc # NoCalc
    /\ calc' = NoCalc
    /\ UNCHANGED <<engineVars, trackerVars>>

InitColor ==
    /\ InitEngine
    /\ InitTracker
    /\ callers = [c \in {"main"} |-> IdleCaller]

NextColor ==
    \/ /\ calc = NoCalc
       /\ \/ \E color1 \in ColorRamp, color2 \in ColorSamples,
                blend_factor \in BlendFactors :
                \/ CallBlend(color1, color2, blend_factor)
                \/ CallBlend(color2, color1, blend_factor)
          \/ \E color \in ColorRamp, brightness \in 0..255 :
                CallApplyBrightness(color, brightness)
          \/ \E hue \in 0..359, value \in 0..255 : CallHsv(hue, 0, value)
          \/ \E hue \in 0..359, saturation \in Saturations, value \in Values :
                CallHsv(hue, saturation, value)
    \/ CalcReturn

SpecColor == InitColor /\ [][NextColor]_vars

(***************************************************************************)
(* The connectivity tracker: the link handler (wifi_manager.c), the session *)
(* handler (mqtt_client.c), the relay (relay_control.c) and the glue that   *)
(* turns their state into an indicator status (esp-app.c).  A handler runs  *)
(* to completion as one action; log lists what it did, in program order.    *)
(***************************************************************************)
MaximumRetry == 2          \* CONFIG_ESP_MAXIMUM_RETRY, set by the build configuration
MaxConnectionRetry == 2    \* session drops in a row that are followed

WIFI_CONNECTED_BIT == "BIT0"
WIFI_FAIL_BIT == "BIT1"

WifiStates == {"DISCONNECTED", "CONNECTING", "CONNECTED", "FAILED"}

Event(source, id) == [kind |-> "event", topic |-> source, data |-> id]
Effect(kind, topic, data) == [kind |-> kind, topic |-> topic, data |-> data]
\* esp_mqtt_client_publish(client, topic, data, 0, qos, retain)
Publish(topic, data, qos, retain) ==
    [kind |-> "publish", topic |-> topic, data |-> data, qos |-> qos, retain |-> retain]

\* esp-app.c 20-26: rgb_led_set_status(status).
update_rgb_status_led(status) == <<Effect("apply", "direct", status)>>

\* rgb_led_manager.c 272-287: the status rgb_led_set_mqtt_relay_status applies;
\* none ("ESP_ERR_INVALID_STATE" is returned) unless mqtt_connected.
rgb_led_set_mqtt_relay_status(mqtt_connected, relay_on) ==
    IF ~mqtt_connected THEN "ESP_ERR_INVALID_STATE"
    ELSE IF relay_on THEN "MQTT_RELAY_ON"
    ELSE "MQTT_RELAY_OFF"

\* Variant of update_system_status_led that looks at the link first.
ComposeLinkFirst(wifi, mqtt, relay) ==
    IF wifi # "CONNECTED" THEN "DISCONNECTED"
    ELSE IF mqtt = "CONNECTED" THEN rgb_led_set_mqtt_relay_status(TRUE, relay = "ON")
    ELSE "WIFI_CONNECTED"

\* esp-app.c 57-76: the status update_system_status_led applies, from the
\* link state, the session state and the relay state.
ComposeStatus(wifi, mqtt, relay) ==
    IF mqtt = "CONNECTED" THEN rgb_led_set_mqtt_relay_status(TRUE, relay = "ON")
    ELSE IF wifi = "CONNECTED" THEN "WIFI_CONNECTED"
    ELSE "DISCONNECTED"

update_system_status_led(wifi, mqtt, relay) ==
    <<Effect("apply", "compose", ComposeStatus(wifi, mqtt, relay))>>

\* esp-app.c 79-104
status_led_set_mqtt_state(state, wifi, relay) ==
    CASE state = "DISCONNECTED" ->
             IF wifi = "CONNECTED" THEN update_rgb_status_led("WIFI_CONNECTED") ELSE <<>>
      [] state = "CONNECTING" -> update_rgb_status_led("WIFI_CONNECTED")
      [] state = "CONNECTED" -> update_system_status_led(wifi, state, relay)
      [] state = "ERROR" -> update_rgb_status_led("ERROR")

\* The status the effects of a handler leave applied.
RECURSIVE LastApplied(_, _)
LastApplied(effects, before) ==
    IF effects = <<>> THEN before
    ELSE IF effects[Len(effects)].kind = "apply" THEN effects[Len(effects)].data
    ELSE LastApplied(SubSeq(effects, 1, Len(effects) - 1), before)

\* A handler has run: its effects are logged and its last status is applied.
Ran(effects) ==
    /\ log' = effects
    /\ applied' = LastApplied(effects, applied)

\* esp-app.c 336-358: wifi_manager_start, which makes the driver post
\* WIFI_EVENT_STA_START; if it fails app_main goes to its main loop.
AppMain336 ==
    /\ app_main.pc = "336"
    /\ \E started \in BOOLEAN :
         app_main' = [app_main EXCEPT !.pc = IF started THEN "358" ELSE "loop"]
    /\ UNCHANGED <<s_wifi_state, s_retry_num, wifi_bits, s_mqtt_state,
                   s_connection_retry_count, client, s_relay_state, applied, log>>
    /\ UNCHANGED <<engineVars, device_id_len, calc, relay_pin>>

\* esp-app.c 358: update_rgb_status_led(RGB_STATUS_CONNECTING), three seconds
\* after the link was started.
AppMain358 ==
    /\ app_main.pc = "358"
    /\ app_main' = [app_main EXCEPT !.pc = "361"]
    /\ Ran(<<Event("app_main", "358")>> \o update_rgb_status_led("CONNECTING"))
    /\ UNCHANGED <<s_wifi_state, s_retry_num, wifi_bits, s_mqtt_state,
                   s_connection_retry_count, client, s_relay_state>>
    /\ UNCHANGED <<engineVars, device_id_len, calc, relay_pin>>

\* esp-app.c 361 and wifi_manager.c 225-247: wait for a bit or the timeout;
\* the bits are read, not cleared.
AppMain361 ==
    /\ app_main.pc = "361"
    /\ \E timeout \in BOOLEAN :
         /\ wifi_bits # {} \/ timeout
         /\ app_main' = [pc |-> "loop",
                         wait_result |->
                            IF WIFI_CONNECTED_BIT \in wifi_bits THEN "ESP_OK"
                            ELSE IF WIFI_FAIL_BIT \in wifi_bits THEN "ESP_FAIL"
                            ELSE "ESP_ERR_TIMEOUT"]
    /\ UNCHANGED <<s_wifi_state, s_retry_num, wifi_bits, s_mqtt_state,
                   s_connection_retry_count, client, s_relay_state, applied, log>>
    /\ UNCHANGED <<engineVars, device_id_len, calc, relay_pin>>

\* wifi_manager.c 39-50: WIFI_EVENT_STA_START, posted once the link is started.
WifiStaStart ==
    /\ app_main.pc # "336"
    /\ s_wifi_state = "DISCONNECTED"
    /\ s_wifi_state' = "CONNECTING"
    /\ Ran(<<Event("wifi", "STA_START")>>
             \o update_rgb_status_led("CONNECTING")
             \o <<Effect("wifi", "esp_wifi_connect", "")>>)
    /\ UNCHANGED <<s_retry_num, wifi_bits, s_mqtt_state, s_connection_retry_count,
                   client, s_relay_state, app_main>>
    /\ UNCHANGED <<engineVars, device_id_len, calc, relay_pin>>

\* Variant of WIFI_EVENT_STA_DISCONNECTED that gives up at once: no retry,
\* the link is FAILED whatever it was.
WifiStaDisconnectedNoRetry ==
    /\ s_wifi_state \in {"CONNECTING", "CONNECTED"}
    /\ wifi_bits' = wifi_bits \cup {WIFI_FAIL_BIT}
    /\ s_wifi_state' = "FAILED"
    /\ Ran(<<Event("wifi", "STA_DISCONNECTED")>> \o update_rgb_status_led("ERROR"))
    /\ UNCHANGED <<s_retry_num, s_mqtt_state, s_connection_retry_count, client,
                   s_relay_state, app_main>>
    /\ UNCHANGED <<engineVars, device_id_len, calc, relay_pin>>

\* wifi_manager.c 53-69: WIFI_EVENT_STA_DISCONNECTED, posted when a connect
\* attempt fails or the link drops.
WifiStaDisconnected ==
    /\ s_wifi_state \in {"CONNECTING", "CONNECTED"}
    /\ IF s_retry_num < MaximumRetry
       THEN /\ s_retry_num' = s_retry_num + 1
            /\ s_wifi_state' = "CONNECTING"
            /\ Ran(<<Event("wifi", "STA_DISCONNECTED"),
                     Effect("wifi", "esp_wifi_connect", "")>>
                     \o update_rgb_status_led("CONNECTING"))
            /\ UNCHANGED wifi_bits
       ELSE /\ wifi_bits' = wifi_bits \cup {WIFI_FAIL_BIT}
            /\ s_wifi_state' = "FAILED"
            /\ Ran(<<Event("wifi", "STA_DISCONNECTED")>>
                     \o update_rgb_status_led("ERROR"))
            /\ UNCHANGED s_retry_num
    /\ UNCHANGED <<s_mqtt_state, s_connection_retry_count, client, s_relay_state,
                   app_main>>
    /\ UNCHANGED <<engineVars, device_id_len, calc, relay_pin>>

\* Variant of IP_EVENT_STA_GOT_IP that leaves the retry counter as it is.
WifiGotIpKeepsCount ==
    /\ s_wifi_state = "CONNECTING"
    /\ wifi_bits' = wifi_bits \cup {WIFI_CONNECTED_BIT}
    /\ s_wifi_state' = "CONNECTED"
    /\ IF client = "none"
       THEN /\ Ran(<<Event("wifi", "GOT_IP")>> \o update_rgb_status_led("WIFI_CONNECTED"))
            /\ UNCHANGED <<client, s_mqtt_state>>
       ELSE \E start_ok \in BOOLEAN :
         LET ok == start_ok /\ client = "stopped"
         IN  /\ client' = IF ok THEN "started" ELSE client
             /\ s_mqtt_state' = IF ok THEN "CONNECTING" ELSE "ERROR"
             /\ Ran(<<Event("wifi", "GOT_IP")>>
                      \o update_rgb_status_led("WIFI_CONNECTED")
                      \o status_led_set_mqtt_state("CONNECTING", "CONNECTED", s_relay_state)
                      \o <<Effect("mqtt", "esp_mqtt_client_start", "")>>
                      \o IF ok THEN <<>>
                         ELSE status_led_set_mqtt_state("ERROR", "CONNECTED", s_relay_state))
    /\ UNCHANGED <<s_retry_num, s_connection_retry_count, s_relay_state, app_main>>
    /\ UNCHANGED <<engineVars, device_id_len, calc, relay_pin>>

\* wifi_manager.c 70-82 with esp-app.c 43-48 and mqtt_client.c 245-264:
\* IP_EVENT_STA_GOT_IP.  The callback applies the WiFi-connected status and
\* starts the session client, which esp_mqtt_client_start refuses when the
\* client is already started.  mqtt_client_start returns at once (line 247)
\* when mqtt_client_init has built no client.
WifiGotIp ==
    /\ s_wifi_state = "CONNECTING"
    /\ s_retry_num' = 0
    /\ wifi_bits' = wifi_bits \cup {WIFI_CONNECTED_BIT}
    /\ s_wifi_state' = "CONNECTED"
    /\ IF client = "none"
       THEN /\ Ran(<<Event("wifi", "GOT_IP")>> \o update_rgb_status_led("WIFI_CONNECTED"))
            /\ UNCHANGED <<client, s_mqtt_state>>
       ELSE \E start_ok \in BOOLEAN :
         LET ok == start_ok /\ client = "stopped"
         IN  /\ client' = IF ok THEN "started" ELSE client
             /\ s_mqtt_state' = IF ok THEN "CONNECTING" ELSE "ERROR"
             /\ Ran(<<Event("wifi", "GOT_IP")>>
                      \o update_rgb_status_led("WIFI_CONNECTED")
                      \o status_led_set_mqtt_state("CONNECTING", "CONNECTED", s_relay_state)
                      \o <<Effect("mqtt", "esp_mqtt_client_start", "")>>
                      \o IF ok THEN <<>>
                         ELSE status_led_set_mqtt_state("ERROR", "CONNECTED", s_relay_state))
    /\ UNCHANGED <<s_connection_retry_count, s_relay_state, app_main>>
    /\ UNCHANGED <<engineVars, device_id_len, calc, relay_pin>>

\* Variant of MQTT_EVENT_CONNECTED that publishes and subscribes before it
\* updates the indicator.
MqttConnectedPublishFirst ==
    /\ client = "started"
    /\ client' = "connected"
    /\ s_mqtt_state' = "CONNECTED"
    /\ s_connection_retry_count' = 0
    /\ Ran(<<Event("mqtt", "CONNECTED")>>
             \o IF ~TopicFits("relay/set") THEN <<>>
                ELSE (IF ~TopicFits("status") THEN <<>>
                      ELSE <<Publish("status", "online", 1, 1)>>)
                       \o <<Effect("subscribe", "relay/set", "")>>
                       \o status_led_set_mqtt_state("CONNECTED", s_wifi_state, s_relay_state))
    /\ UNCHANGED <<s_wifi_state, s_retry_num, wifi_bits, s_relay_state, app_main>>
    /\ UNCHANGED <<engineVars, device_id_len, calc, relay_pin>>

\* mqtt_client.c 39-66: MQTT_EVENT_CONNECTED.  The subscribe and the publish
\* are skipped when their topic does not fit its buffer.
MqttConnected ==
    /\ client = "started"
    /\ client' = "connected"
    /\ s_mqtt_state' = "CONNECTED"
    /\ s_connection_retry_count' = 0
    /\ Ran(<<Event("mqtt", "CONNECTED")>>
             \o status_led_set_mqtt_state("CONNECTED", s_wifi_state, s_relay_state)
             \o IF ~TopicFits("relay/set") THEN <<>>
                ELSE <<Effect("subscribe", "relay/set", "")>>
                       \o IF ~TopicFits("status") THEN <<>>
                          ELSE <<Publish("status", "online", 1, 1)>>)
    /\ UNCHANGED <<s_wifi_state, s_retry_num, wifi_bits, s_relay_state, app_main>>
    /\ UNCHANGED <<engineVars, device_id_len, calc, relay_pin>>

\* mqtt_client.c 68-77: MQTT_EVENT_DISCONNECTED; the client reconnects by
\* itself.
MqttDisconnected ==
    /\ client \in {"started", "connected"}
    /\ s_connection_retry_count < MaxConnectionRetry
    /\ client' = "started"
    /\ s_connection_retry_count' = s_connection_retry_count + 1
    /\ s_mqtt_state' = "DISCONNECTED"
    /\ Ran(<<Event("mqtt", "DISCONNECTED")>>
             \o status_led_set_mqtt_state("DISCONNECTED", s_wifi_state, s_relay_state))
    /\ UNCHANGED <<s_wifi_state, s_retry_num, wifi_bits, s_relay_state, app_main>>
    /\ UNCHANGED <<engineVars, device_id_len, calc, relay_pin>>

\* mqtt_client.c 148-165: MQTT_EVENT_ERROR.
MqttError ==
    /\ client \in {"started", "connected"}
    /\ s_mqtt_state' = "ERROR"
    /\ Ran(<<Event("mqtt", "ERROR")>>
             \o status_led_set_mqtt_state("ERROR", s_wifi_state, s_relay_state))
    /\ UNCHANGED <<s_wifi_state, s_retry_num, wifi_bits, s_connection_retry_count,
                   client, s_relay_state, app_main>>
    /\ UNCHANGED <<engineVars, device_id_len, calc, relay_pin>>

\* mqtt_client.c 87-146 with relay_control.c 33-44: MQTT_EVENT_DATA.  A
\* command on the relay topic that asks for another state than the current
\* one drives the pin; if that succeeds the state is recorded, the status
\* composed again and the new state published.
MqttData(topic, data, gpio_ok) ==
    /\ client = "connected"
    /\ LET new_state == IF data = "on" THEN "ON" ELSE "OFF"
           changes == /\ TopicFits("relay/set")
                      /\ topic = "relay/set"
                      /\ data \in {"on", "off"}
                      /\ s_relay_state # new_state
       IN  IF changes /\ gpio_ok
           THEN /\ s_relay_state' = new_state
                /\ relay_pin' = new_state
                /\ Ran(<<Event("mqtt", "DATA"), Effect("gpio", "relay", new_state)>>
                         \o update_system_status_led(s_wifi_state, s_mqtt_state, new_state)
                         \o IF TopicFits("relay/state")
                            THEN <<Publish("relay/state", data, 1, 0)>>
                            ELSE <<>>)
           ELSE /\ Ran(<<Event("mqtt", "DATA")>>)
                /\ UNCHANGED <<s_relay_state, relay_pin>>
    /\ UNCHANGED <<s_wifi_state, s_retry_num, wifi_bits, s_mqtt_state,
                   s_connection_retry_count, client, app_main>>
    /\ UNCHANGED <<engineVars, device_id_len, calc>>

\* Variant of mqtt_publish_message without the checks of lines 282-290.
mqtt_publish_unchecked(topic, data, qos, retain) == <<Publish(topic, data, qos, retain)>>

\* mqtt_client.c 280-302: mqtt_publish_message hands nothing to the client
\* unless the client is initialised and the session state is CONNECTED.
mqtt_publish_message(topic, data, qos, retain) ==
    IF client = "none" \/ s_mqtt_state # "CONNECTED"
    THEN <<>>
    ELSE <<Publish(topic, data, qos, retain)>>

\* What mqtt_publish_message returns after the effects it had; sent tells
\* whether esp_mqtt_client_publish accepted the message (msg_id # -1).
PublishResult(effects, sent) ==
    IF effects = <<>> \/ ~sent THEN "ESP_FAIL" ELSE "ESP_OK"

\* A task calls publisher fn, which is or ends in mqtt_publish_message.
CallPublisher(fn, topic, data, qos, retain) ==
    /\ \E sent \in BOOLEAN :
         LET effects == mqtt_publish_message(topic, data, qos, retain)
         IN  Ran(<<Event("call", fn)>> \o effects
                   \o <<Effect("return", fn, PublishResult(effects, sent))>>)
    /\ UNCHANGED <<s_wifi_state, s_retry_num, wifi_bits, s_mqtt_state,
                   s_connection_retry_count, client, s_relay_state, app_main>>
    /\ UNCHANGED <<engineVars, device_id_len, calc, relay_pin>>

\* mqtt_client.c 306-311
mqtt_publish_status ==
    CallPublisher("mqtt_publish_status", FormatTopic("status"), "online", 1, 1)

\* mqtt_client.c 313-320
mqtt_publish_relay_state(state) ==
    CallPublisher("mqtt_publish_relay_state", FormatTopic("relay/state"),
                  IF state = "ON" THEN "on" ELSE "off", 1, 1)

\* esp-app.c 106-133: one round of heartbeat_task.
Heartbeat ==
    /\ IF s_mqtt_state = "CONNECTED"
       THEN Ran(<<Event("heartbeat", "round")>>
                  \o mqtt_publish_message(FormatTopic("status"), "online", 1, 1)
                  \o mqtt_publish_message(FormatTopic("relay/state"),
                                          IF s_relay_state = "ON" THEN "on" ELSE "off",
                                          1, 1)
                  \o update_system_status_led(s_wifi_state, s_mqtt_state, s_relay_state))
       ELSE Ran(<<Event("heartbeat", "round")>>)
    /\ UNCHANGED <<s_wifi_state, s_retry_num, wifi_bits, s_mqtt_state,
                   s_connection_retry_count, client, s_relay_state, app_main>>
    /\ UNCHANGED <<engineVars, device_id_len, calc, relay_pin>>

DataTopics == {"relay/set", "status"}
DataPayloads == {"on", "off", "toggle"}

InitTracking ==
    /\ InitEngine
    /\ InitTrackerWith(DeviceIdLens)
    /\ callers = [c \in {"main"} |-> IdleCaller]

NextTracking ==
    \/ AppMain336
    \/ AppMain358
    \/ AppMain361
    \/ WifiStaStart
    \/ WifiStaDisconnected
    \/ WifiGotIp
    \/ MqttConnected
    \/ MqttDisconnected
    \/ MqttError
    \/ \E topic \in DataTopics, data \in DataPayloads, gpio_ok \in BOOLEAN :
          MqttData(topic, data, gpio_ok)
    \/ Heartbeat

SpecTracking == InitTracking /\ [][NextTracking]_vars

(***************************************************************************)
(* SpecData: the tracker, with broker messages given as the handler gets   *)
(* them: a topic and its length, and the payload bytes (data_len is their  *)
(* number).                                                                *)
(***************************************************************************)
MaxTopicLen == 128
MaxDataLen == 32
\* The byte 0.
NUL == "NUL"

\* The string a zeroed buffer holds for strcmp after bytes were copied into
\* it: the bytes before the first NUL.
RECURSIVE CStr(_)
CStr(bytes) ==
    IF bytes = <<>> \/ Head(bytes) = NUL THEN <<>>
    ELSE <<Head(bytes)>> \o CStr(Tail(bytes))

\* lines 119-120: strcmp(data_str, "on") == 0, strcmp(data_str, "off") == 0
DataString(bytes) ==
    IF CStr(bytes) = <<"o", "n">> THEN "on"
    ELSE IF CStr(bytes) = <<"o", "f", "f">> THEN "off"
    ELSE "other"

\* A payload of 33 bytes that starts with "on".
LongPayload == [i \in 1..(MaxDataLen + 1) |-> IF i = 1 THEN "o" ELSE IF i = 2 THEN "n" ELSE NUL]

PayloadBytes ==
    {<<>>, <<"o", "n">>, <<"o", "f", "f">>, <<"O", "N">>, <<"o", "n", "e">>,
     <<"o", "n", NUL, "x">>, <<"o", "f", "f", NUL>>, LongPayload}

\* The topics of the messages: the relay command topic, another topic, and
\* a topic of 129 bytes.
Messages ==
    {[topic |-> "relay/set", topic_len |-> device_id_len + 10, data |-> bytes] :
        bytes \in PayloadBytes}
    \cup {[topic |-> "status", topic_len |-> device_id_len + 7, data |-> bytes] :
        bytes \in PayloadBytes}
    \cup {[topic |-> "long", topic_len |-> MaxTopicLen + 1, data |-> <<"o", "n">>]}

\* mqtt_client.c 87-146: MQTT_EVENT_DATA, from the checks of the lengths on.
MqttEventData(msg, gpio_ok) ==
    IF \/ msg.topic_len <= 0 \/ Len(msg.data) <= 0
       \/ msg.topic_len > MaxTopicLen \/ Len(msg.data) > MaxDataLen
    THEN /\ client = "connected"
         /\ Ran(<<Event("mqtt", "DATA")>>)
         /\ UNCHANGED <<s_wifi_state, s_retry_num, wifi_bits, s_mqtt_state,
                        s_connection_retry_count, client, s_relay_state, app_main>>
         /\ UNCHANGED <<engineVars, device_id_len, calc, relay_pin>>
    ELSE MqttData(msg.topic, DataString(msg.data), gpio_ok)

NextData ==
    \/ AppMain336
    \/ AppMain358
    \/ AppMain361
    \/ WifiStaStart
    \/ WifiStaDisconnected
    \/ WifiGotIp
    \/ MqttConnected
    \/ MqttDisconnected
    \/ MqttError
    \/ \E msg \in Messages, gpio_ok \in BOOLEAN : MqttEventData(msg, gpio_ok)
    \/ Heartbeat

SpecData == InitTracking /\ [][NextData]_vars

(***************************************************************************)
(* SpecRelay: the tracker, and a task that calls the relay functions       *)
(* (relay_control.c) at any time.  gpio_ok tells whether gpio_set_level    *)
(* returns ESP_OK.                                                         *)
(***************************************************************************)
\* Variant of relay_control_set_state that records the state whatever
\* gpio_set_level returns.
RelaySetAlwaysRecords(fn, state, gpio_ok) ==
    /\ s_relay_state' = state
    /\ relay_pin' = IF gpio_ok THEN state ELSE relay_pin
    /\ Ran(<<Event("call", fn), Effect("request", "relay", state),
             Effect("return", fn, IF gpio_ok THEN "ESP_OK" ELSE "ESP_FAIL")>>)
    /\ UNCHANGED <<s_wifi_state, s_retry_num, wifi_bits, s_mqtt_state,
                   s_connection_retry_count, client, app_main>>
    /\ UNCHANGED <<engineVars, device_id_len, calc>>

\* relay_control.c 33-44: relay_control_set_state(state), called as fn.
relay_control_set_state(fn, state, gpio_ok) ==
    /\ s_relay_state' = IF gpio_ok THEN state ELSE s_relay_state
    /\ relay_pin' = IF gpio_ok THEN state ELSE relay_pin
    /\ Ran(<<Event("call", fn), Effect("request", "relay", state),
             Effect("return", fn, IF gpio_ok THEN "ESP_OK" ELSE "ESP_FAIL")>>)
    /\ UNCHANGED <<s_wifi_state, s_retry_num, wifi_bits, s_mqtt_state,
                   s_connection_retry_count, client, app_main>>
    /\ UNCHANGED <<engineVars, device_id_len, calc>>

\* relay_control.c 51-59
relay_control_turn_on(gpio_ok) == relay_control_set_state("relay_control_turn_on", "ON", gpio_ok)
relay_control_turn_off(gpio_ok) == relay_control_set_state("relay_control_turn_off", "OFF", gpio_ok)

\* relay_control.c 61-65
relay_control_toggle(gpio_ok) ==
    relay_control_set_state("relay_control_toggle",
                            IF s_relay_state = "ON" THEN "OFF" ELSE "ON", gpio_ok)

NextRelay ==
    \/ NextTracking
    \/ \E state \in {"ON", "OFF"}, gpio_ok \in BOOLEAN :
          relay_control_set_state("relay_control_set_state", state, gpio_ok)
    \/ \E gpio_ok \in BOOLEAN : relay_control_turn_on(gpio_ok)
    \/ \E gpio_ok \in BOOLEAN : relay_control_turn_off(gpio_ok)
    \/ \E gpio_ok \in BOOLEAN : relay_control_toggle(gpio_ok)

SpecRelay == InitTracking /\ [][NextRelay]_vars

(***************************************************************************)
(* SpecPublish: the tracker, with mqtt_client_init having built a client   *)
(* or failed, and a task that calls the publishers at any time.            *)
(***************************************************************************)
InitPublish ==
    /\ InitEngine
    /\ callers = [c \in {"main"} |-> IdleCaller]
    /\ calc = NoCalc
    /\ device_id_len = 8
    /\ s_wifi_state = "DISCONNECTED"
    /\ s_retry_num = 0
    /\ wifi_bits = {}
    /\ s_mqtt_state = "DISCONNECTED"
    /\ s_connection_retry_count = 0
    /\ client \in {"none", "stopped"}
    /\ s_relay_state = "OFF"
    /\ relay_pin = "OFF"
    /\ applied = "DISCONNECTED"
    /\ log = <<>>
    /\ app_main = [pc |-> "336", wait_result |-> "none"]

NextPublish ==
    \/ NextTracking
    \/ \E topic \in DataTopics, data \in DataPayloads :
          CallPublisher("mqtt_publish_message", topic, data, 0, 0)
    \/ mqtt_publish_status
    \/ \E state \in {"ON", "OFF"} : mqtt_publish_relay_state(state)

SpecPublish == InitPublish /\ [][NextPublish]_vars

(***************************************************************************)
(* Properties of the effect controller.                                    *)
(***************************************************************************)
AliveTasks(ts) == {t \in Tasks : ts[t].pc # "free"}

\* Caller c's step returns from the operation op.
Returns(c, op) ==
    /\ callers'[c] # callers[c]
    /\ callers'[c].pc = "idle"
    /\ callers'[c].op = op

\* Caller c has returned from op with res and has called nothing since.
Returned(c, op, res) ==
    /\ callers[c].pc = "idle"
    /\ callers[c].op = op
    /\ callers[c].res = res

\* Frames task t has written: iterations 0..step-1, and iteration step too
\* once the task is past its frame.
FramesWritten(t) ==
    Cardinality({k \in 0..tasks[t].step :
                   /\ FrameWrites(tasks[t].born, k)
                   /\ k < tasks[t].step \/ tasks[t].pc = "tail"})

\* C1: under any interleaving of the callers' start_effect / stop_effect
\* calls, at most one renderer task is alive (spawned, not yet exited or
\* force-terminated).
C1_AtMostOneRenderer == Cardinality(AliveTasks(tasks)) <= 1

\* C2 as stated: when a start_effect call returns ESP_OK exactly one renderer
\* is alive; from then on, until the caller's next call, the only renderer is
\* the one the call spawned and every frame written is the frame of the
\* call's configuration.
C2_ExactlyOneRendererOfB ==
    [][\A c \in DOMAIN callers :
         /\ (Returns(c, "start") /\ callers'[c].res = "ESP_OK")
               => Cardinality(AliveTasks(tasks')) = 1
         /\ Returned(c, "start", "ESP_OK")
               => \A t \in Tasks :
                    /\ Alive(t) => t = effect_task_handle
                    /\ Rendering(t) => tasks[t].born = callers[c].arg
                    /\ (tasks[t].pc = "frame" /\ tasks'[t].pc = "tail"
                          /\ FrameWrites(callers[c].arg, tasks[t].step))
                          => led' = FrameColor(callers[c].arg, tasks[t].step)]_vars

\* C2 amended: when a start_effect call returns ESP_OK at most one renderer
\* is alive (none if the effect was a one-shot that has already played out);
\* from then on, until the caller's next call, the only renderer is the one
\* the call spawned and every frame written is the frame of the call's
\* configuration.
C2_AtMostOneRendererOfB ==
    [][\A c \in DOMAIN callers :
         /\ (Returns(c, "start") /\ callers'[c].res = "ESP_OK")
               => Cardinality(AliveTasks(tasks')) <= 1
         /\ Returned(c, "start", "ESP_OK")
               => \A t \in Tasks :
                    /\ Alive(t) => t = effect_task_handle
                    /\ Rendering(t) => tasks[t].born = callers[c].arg
                    /\ (tasks[t].pc = "frame" /\ tasks'[t].pc = "tail"
                          /\ FrameWrites(callers[c].arg, tasks[t].step))
                          => led' = FrameColor(callers[c].arg, tasks[t].step)]_vars

\* A start_effect that found a renderer running has returned ESP_OK and the
\* renderer it spawned has written the first frame of its blink.
C2_Witness ==
    /\ Returned("main", "start", "ESP_OK")
    /\ callers["main"].found
    /\ callers["main"].arg = StatusConfig("WIFI_CONNECTED")
    /\ \E t \in Tasks : tasks[t].pc = "tail" /\ tasks[t].step = 0
    /\ led = FrameColor(StatusConfig("WIFI_CONNECTED"), 0)

\* C3: stop_effect polls at most 50 times and then returns: the caller is
\* never left hanging, and the forced termination terminates no task but the
\* renderer.
C3_StopReturnsBounded ==
    /\ \A c \in DOMAIN callers :
         /\ callers[c].retry_count <= StopRetryLimit
         /\ callers[c].pc # "deleted"
    /\ ~panic

\* C4: stop_effect called with the handle absent returns ESP_OK and changes
\* nothing; a stop_effect that has returned leaves the handle absent, so a
\* second stop_effect in a row is such a call.
C4_StopIdempotent ==
    [][\A c \in DOMAIN callers :
         /\ (callers[c].pc = "idle" /\ callers'[c] # callers[c]
               /\ callers'[c].op = "stop" /\ effect_task_handle = NULL)
               => /\ callers'[c].pc = "idle"
                  /\ callers'[c].res = "ESP_OK"
                  /\ UNCHANGED <<led, effect_task_handle, effect_running,
                                 current_effect_config, tasks>>
         /\ Returns(c, "stop")
               => effect_task_handle' = NULL /\ AliveTasks(tasks') = {}]_vars

\* A stop_effect that found no renderer has returned, the pixel still red.
C4_Witness ==
    /\ Returned("main", "stop", "ESP_OK")
    /\ ~callers["main"].found
    /\ led = RGB_COLOR_RED

C6_HandleIffRendering ==
    /\ \A t \in Tasks : Rendering(t) => effect_task_handle = t
    /\ effect_task_handle # NULL =>
          \/ Alive(effect_task_handle)
          \/ \E c \in DOMAIN callers : callers[c].pc = "stop196"

\* C7 as stated: a one-shot renderer writes at most 100 frames.
C7_AtMost100Frames ==
    \A t \in Tasks : (Alive(t) /\ ~tasks[t].born.repeat) => FramesWritten(t) <= 100

\* C7 amended: a one-shot renderer writes at most 101 frames (iterations
\* 0..100) and leaves its loop after the 101st with no stop_effect call; once
\* it has exited, and if the caller has called nothing since, the pixel is
\* off, the handle absent and the running flag false.
C7_OneShotEnds ==
    /\ [](\A t \in Tasks : (Alive(t) /\ ~tasks[t].born.repeat)
             => FramesWritten(t) <= OneShotStepLimit + 1)
    /\ [][\A t \in Tasks :
            (tasks[t].pc = "tail" /\ tasks[t].step = OneShotStepLimit
               /\ ~current_effect_config.repeat /\ tasks'[t] # tasks[t]
               /\ tasks'[t].pc # "free")
               => tasks'[t].pc = "clear" /\ ~effect_running']_vars
    /\ [](\A c \in DOMAIN callers :
            (Returned(c, "start", "ESP_OK") /\ ~callers[c].arg.repeat
               /\ AliveTasks(tasks) = {})
               => /\ led = RGB_COLOR_OFF
                  /\ effect_task_handle = NULL
                  /\ ~effect_running)

\* The one-shot blink has written its 101st frame.
C7_Witness ==
    /\ Returned("main", "start", "ESP_OK")
    /\ \E t \in Tasks :
         /\ tasks[t].born = OneShotBlink
         /\ tasks[t].pc = "tail"
         /\ FramesWritten(t) = 101

\* The colour a status's canonical solid effect shows.
StatusColor(status) == FrameColor(StatusConfig(status), 0)

\* C8: once the pixel shows the canonical effect of the status last applied
\* (solid green for MQTT_RELAY_ON), and while no further call is made, the
\* pixel keeps showing it.
C8_KeepsShowingStatus ==
    [][\A c \in DOMAIN callers :
         (/\ Returned(c, "start", "ESP_OK")
          /\ callers[c].status = "MQTT_RELAY_ON"
          /\ callers'[c] = callers[c]
          /\ led = StatusColor("MQTT_RELAY_ON"))
            => led' = StatusColor("MQTT_RELAY_ON")]_vars

(***************************************************************************)
(* Properties of the connectivity tracker.                                 *)
(***************************************************************************)
\* The handler that ran last was a link callback, a session callback or a
\* relay change.
CallbackRan ==
    /\ log # <<>>
    /\ \/ log[1].topic = "wifi"
       \/ log[1].topic = "mqtt" /\ log[1].data # "DATA"
       \/ \E i \in 1..Len(log) : log[i].kind = "gpio"

\* C9: after every link callback, session callback or relay change has run,
\* the status applied last is the one update_system_status_led composes from
\* the current link, session and relay states.
C9_AppliedIsComposed ==
    CallbackRan => applied = ComposeStatus(s_wifi_state, s_mqtt_state, s_relay_state)

\* The handler that ran last composed the status in update_system_status_led.
Composed ==
    \E i \in 1..Len(log) : log[i].kind = "apply" /\ log[i].topic = "compose"

\* C10: with the session CONNECTED the composed status is MQTT_RELAY_ON when
\* the relay is on and MQTT_RELAY_OFF when it is off, whatever the link
\* state: as a function, and in every run of update_system_status_led.
C10_SessionUpShowsRelay ==
    /\ \A wifi \in WifiStates :
         /\ ComposeStatus(wifi, "CONNECTED", "ON") = "MQTT_RELAY_ON"
         /\ ComposeStatus(wifi, "CONNECTED", "OFF") = "MQTT_RELAY_OFF"
    /\ (Composed /\ s_mqtt_state = "CONNECTED") =>
          applied = (IF s_relay_state = "ON" THEN "MQTT_RELAY_ON" ELSE "MQTT_RELAY_OFF")

\* A heartbeat round composed the status with the session up, the link
\* failed and the relay on.
C10_Witness ==
    /\ log # <<>>
    /\ log[1].topic = "heartbeat"
    /\ Composed
    /\ s_mqtt_state = "CONNECTED"
    /\ s_wifi_state = "FAILED"
    /\ s_relay_state = "ON"
    /\ applied = "MQTT_RELAY_ON"

\* The status the link state alone stands for.
LinkStatus(wifi) ==
    CASE wifi = "CONNECTED" -> "WIFI_CONNECTED"
      [] wifi = "CONNECTING" -> "CONNECTING"
      [] wifi = "DISCONNECTED" -> "DISCONNECTED"
      [] wifi = "FAILED" -> "ERROR"

\* C11: whenever update_system_status_led composes the status while the
\* session is not CONNECTED, the status is the one of the link state, each
\* of the four link states giving its own: CONNECTED WIFI_CONNECTED,
\* CONNECTING CONNECTING, DISCONNECTED DISCONNECTED, FAILED ERROR.
C11_LinkDecidesWhenSessionDown ==
    (Composed /\ s_mqtt_state # "CONNECTED") => applied = LinkStatus(s_wifi_state)

(***************************************************************************)
(* Properties of the status table and of the entry points.                 *)
(***************************************************************************)
\* Caller c's step is a call of op.
Calls(c, op) ==
    /\ callers[c].pc = "idle"
    /\ callers'[c] # callers[c]
    /\ callers'[c].op = op

\* The table of coarse statuses: kind and colour, and whether it repeats.
TableKind(status) ==
    CASE status = "CONNECTING" -> "BREATHE"
      [] status = "WIFI_CONNECTED" -> "BLINK"
      [] status = "ERROR" -> "STROBE"
      [] OTHER -> "SOLID"

TableColor(status) ==
    CASE status = "DISCONNECTED" -> RGB_COLOR_OFF
      [] status = "CONNECTING" -> RGB_COLOR_BLUE
      [] status = "WIFI_CONNECTED" -> RGB_COLOR_CYAN
      [] status = "MQTT_CONNECTED" -> RGB_COLOR_GREEN
      [] status = "MQTT_RELAY_ON" -> RGB_COLOR_GREEN
      [] status = "MQTT_RELAY_OFF" -> RGB_COLOR_YELLOW
      [] status = "ERROR" -> RGB_COLOR_RED

InTable(status, cfg) ==
    /\ cfg.effect = TableKind(status)
    /\ cfg.primary_color = TableColor(status)
    /\ status \in {"CONNECTING", "WIFI_CONNECTED", "ERROR"} => cfg.repeat

\* What rgb_led_set_status does for the seven statuses, in the states where
\* ready holds: it hands rgb_led_start_effect the config of the table, that
\* config is the one installed, and the call does not return
\* ESP_ERR_INVALID_ARG.
AppliesTable(c, ready) ==
    /\ (Calls(c, "start") /\ callers'[c].status \in KnownStatus /\ ready)
          => /\ InTable(callers'[c].status, callers'[c].arg)
             /\ callers'[c].res # "ESP_ERR_INVALID_ARG"
    /\ (callers[c].pc = "start153" /\ callers'[c].pc # "start153"
          /\ callers[c].status \in KnownStatus)
          => /\ current_effect_config' = callers[c].arg
             /\ InTable(callers[c].status, current_effect_config')
    /\ (Returns(c, "start") /\ callers'[c].status \in KnownStatus /\ ready)
          => callers'[c].res # "ESP_ERR_INVALID_ARG"

\* C12 as stated: for each of the seven statuses rgb_led_set_status calls
\* rgb_led_start_effect with the config of the table and never returns
\* ESP_ERR_INVALID_ARG.
C12_TableAlways ==
    [][\A c \in DOMAIN callers : AppliesTable(c, TRUE)]_vars

\* C12 amended: while the peripheral is initialised, for each of the seven
\* statuses rgb_led_set_status calls rgb_led_start_effect with the config of
\* the table and does not return ESP_ERR_INVALID_ARG.
C12_TableWhenInitialised ==
    [][\A c \in DOMAIN callers : AppliesTable(c, led_strip)]_vars

\* The Error status has been applied and its strobe has written a red frame.
C12_Witness ==
    /\ Returned("main", "start", "ESP_OK")
    /\ callers["main"].status = "ERROR"
    /\ current_effect_config = Config("STROBE", RGB_COLOR_RED, 200, 255, TRUE)
    /\ led = RGB_COLOR_RED

\* The statuses the handler that ran last applied, in order.
RECURSIVE Applies(_)
Applies(effects) ==
    IF effects = <<>> THEN <<>>
    ELSE IF Head(effects).kind = "apply"
         THEN <<Head(effects).data>> \o Applies(Tail(effects))
         ELSE Applies(Tail(effects))

\* C13: while the session has not connected, the link going DISCONNECTED ->
\* CONNECTING -> CONNECTED applies CONNECTING (breathe blue) and then
\* WIFI_CONNECTED (blink cyan) and nothing else: the start of the link
\* applies CONNECTING only, the link coming up finds CONNECTING applied and
\* applies WIFI_CONNECTED only, and WIFI_CONNECTED stays applied until the
\* next link or session event.
C13_LinkUpSequence ==
    /\ [][/\ (s_wifi_state = "DISCONNECTED" /\ s_wifi_state' = "CONNECTING")
               => Applies(log') = <<"CONNECTING">>
          /\ (s_wifi_state = "CONNECTING" /\ s_wifi_state' = "CONNECTED"
                /\ client = "stopped" /\ s_mqtt_state' = "CONNECTING")
               => /\ applied = "CONNECTING"
                  /\ \A i \in 1..Len(Applies(log')) : Applies(log')[i] = "WIFI_CONNECTED"
                  /\ applied' = "WIFI_CONNECTED"]_vars
    /\ []((s_wifi_state = "CONNECTED" /\ s_mqtt_state = "CONNECTING")
            => applied = "WIFI_CONNECTED")

\* C14: the session connecting while the relay is OFF applies MQTT_RELAY_OFF
\* and nothing else, whatever the link state; applying it is one
\* rgb_led_start_effect call with the solid yellow config, which stops the
\* renderer that was running before it installs the config: no renderer is
\* alive when the config is installed, and from then on the only renderer
\* is the one spawned for solid yellow.
C14_SessionUpRelayOffYellow ==
    [][/\ \A wifi \in WifiStates :
            status_led_set_mqtt_state("CONNECTED", wifi, "OFF")
              = <<Effect("apply", "compose", "MQTT_RELAY_OFF")>>
       /\ \A c \in DOMAIN callers :
            /\ (Calls(c, "start") /\ callers'[c].status = "MQTT_RELAY_OFF" /\ led_strip)
                  => /\ callers'[c].arg = Config("SOLID", RGB_COLOR_YELLOW, 5000, 255, FALSE)
                     /\ callers'[c].pc = IF effect_task_handle # NULL
                                         THEN "stop184" ELSE "start153"
            /\ (callers[c].status = "MQTT_RELAY_OFF" /\ callers[c].pc = "start153")
                  => AliveTasks(tasks) = {}
            /\ (callers[c].status = "MQTT_RELAY_OFF" /\ callers[c].pc = "start160")
                  => /\ current_effect_config = StatusConfig("MQTT_RELAY_OFF")
                     /\ callers'[c].created => Cardinality(AliveTasks(tasks')) = 1
            /\ (callers[c].status = "MQTT_RELAY_OFF"
                  /\ (callers[c].pc = "start169" \/ Returned(c, "start", "ESP_OK")))
                  => \A t \in Tasks :
                       /\ Alive(t) => /\ t = effect_task_handle
                                      /\ Rendering(t) => tasks[t].born.primary_color = RGB_COLOR_YELLOW
                       /\ (tasks[t].pc = "frame" /\ tasks'[t].pc = "tail")
                             => led' = RGB_COLOR_YELLOW]_vars

\* MQTT_RELAY_OFF has been applied over a running renderer, the call has
\* returned ESP_OK and the new renderer has written yellow.
C14_Witness ==
    /\ Returned("main", "start", "ESP_OK")
    /\ callers["main"].status = "MQTT_RELAY_OFF"
    /\ callers["main"].found
    /\ \E t \in Tasks : tasks[t].pc = "tail"
    /\ led = RGB_COLOR_YELLOW

\* The effects of the handler that ran last are, from position i on: the
\* status applied, the subscribe to the relay command topic, the retained
\* publish of "online" on the status topic, and nothing after it.
IndicatorSubscribeOnline(effects, i) ==
    /\ Len(effects) = i + 2
    /\ effects[i].kind = "apply"
    /\ effects[i + 1] = Effect("subscribe", "relay/set", "")
    /\ effects[i + 2].kind = "publish"
    /\ effects[i + 2].topic = "status"
    /\ effects[i + 2].data = "online"
    /\ effects[i + 2].retain = 1

SessionComesUp == s_mqtt_state # "CONNECTED" /\ s_mqtt_state' = "CONNECTED"

\* C15 as stated: every step that takes the session to CONNECTED applies the
\* status, then subscribes to the relay command topic, then publishes a
\* retained "online".
C15_AlwaysSubscribesAndPublishes ==
    [][SessionComesUp => IndicatorSubscribeOnline(log', 2)]_vars

\* C15 amended: the same, provided the relay command topic of the configured
\* device id fits the 64-byte topic buffer; if it does not, the callback
\* applies the status and neither subscribes nor publishes.
C15_SubscribesAndPublishesIfTopicFits ==
    [][SessionComesUp =>
         IF TopicFits("relay/set")
         THEN IndicatorSubscribeOnline(log', 2)
         ELSE /\ Len(log') = 2
              /\ log'[2].kind = "apply"]_vars

\* The session has come up after a loss and the callback has applied the
\* status, subscribed and published.
C15_Witness ==
    /\ s_mqtt_state = "CONNECTED"
    /\ s_relay_state = "ON"
    /\ log # <<>>
    /\ log[1] = Event("mqtt", "CONNECTED")
    /\ IndicatorSubscribeOnline(log, 2)
    /\ applied = "MQTT_RELAY_ON"

\* C16: rgb_led_start_effect with a kind that is none of the twelve defined
\* returns ESP_ERR_INVALID_ARG at once, installs no config and spawns no
\* renderer: no installed config and no renderer ever has such a kind.
C16_UnknownKindRejected ==
    [][/\ \A c \in DOMAIN callers :
            (Calls(c, "start") /\ callers'[c].arg.effect \notin EffectKinds)
               => /\ callers'[c].pc = "idle"
                  /\ callers'[c].res = "ESP_ERR_INVALID_ARG"
       /\ current_effect_config'.effect \in EffectKinds
       /\ \A t \in Tasks :
            tasks'[t].pc # "free" => tasks'[t].born.effect \in EffectKinds]_vars

\* C17: while the peripheral is not initialised, rgb_led_start_effect,
\* rgb_led_set_status, rgb_led_set_color and rgb_led_off return an error at
\* once and do nothing: no renderer exists, the pixel is never written and
\* effect_running, effect_task_handle and current_effect_config stay as
\* they were.
C17_NoOpWhenUninitialised ==
    [][~led_strip =>
         /\ \A c \in DOMAIN callers :
              (Calls(c, "start") \/ Calls(c, "set_color"))
                 => /\ callers'[c].pc = "idle"
                    /\ callers'[c].res \in {"ESP_ERR_INVALID_ARG", "ESP_ERR_INVALID_STATE"}
         /\ AliveTasks(tasks') = {}
         /\ led' = led
         /\ effect_running' = effect_running
         /\ effect_task_handle' = effect_task_handle
         /\ current_effect_config' = current_effect_config]_vars

\* On a peripheral that is not initialised, a rgb_led_set_color(red) has
\* returned ESP_ERR_INVALID_STATE.
C17_Witness ==
    /\ ~led_strip
    /\ Returned("main", "set_color", "ESP_ERR_INVALID_STATE")
    /\ callers["main"].color = RGB_COLOR_RED
    /\ led = RGB_COLOR_OFF

\* C18: every frame the renderer writes is the frame of the effect (scaled
\* by the effect's own brightness) scaled once more by global_brightness;
\* with global_brightness 0 every frame written is black.
C18_FramesScaledByGlobalBrightness ==
    [][\A t \in Tasks :
         (tasks[t].pc = "frame" /\ tasks'[t].pc = "tail" /\ strip_ok
            /\ FrameWrites(current_effect_config, tasks[t].step))
            => /\ led' = apply_brightness(
                           FrameColor(current_effect_config, tasks[t].step),
                           global_brightness)
               /\ global_brightness = 0 => led' = RGB_COLOR_OFF]_vars

\* C19: rgb_led_set_color and rgb_led_off stop the running renderer before
\* they write: once the call has returned ESP_OK no renderer started before
\* it is in its loop, no frame is written any more, and the pixel shows the
\* colour asked for (scaled by global_brightness) until the caller's next
\* call.
C19_SetColorStopsRenderer ==
    [][\A c \in DOMAIN callers :
         Returned(c, "set_color", "ESP_OK")
            => /\ \A t \in Tasks : ~Rendering(t)
               /\ led = apply_brightness(callers[c].color, global_brightness)
               /\ led' = led]_vars

\* C20: a write the driver fails during a frame does not end the effect: the
\* renderer stays in its loop with the pixel as it was, the frame counter
\* advances at the end of the iteration, and the renderer leaves the loop
\* only when the loop test sees the stop signal, when the one-shot budget
\* is spent, or when it is terminated by force.
C20_FailedWriteKeepsRendering ==
    [][\A t \in Tasks :
         /\ (tasks[t].pc = "frame" /\ tasks'[t] # tasks[t] /\ ~strip_ok)
               => /\ led' = led
                  /\ \/ tasks'[t] = [tasks[t] EXCEPT !.pc = "tail"]
                     \/ tasks'[t].pc = "free"
         /\ (tasks[t].pc = "tail" /\ tasks'[t].pc = "loop")
               => tasks'[t].step = tasks[t].step + 1
         /\ (Rendering(t) /\ tasks'[t].pc \notin {"loop", "frame", "tail"})
               => \/ tasks'[t].pc = "free"
                  \/ tasks[t].pc = "loop" /\ (~effect_running \/ ~led_strip)
                  \/ /\ tasks[t].pc = "tail"
                     /\ ~current_effect_config.repeat
                     /\ tasks[t].step + 1 > OneShotStepLimit]_vars

\* The red frame of a blink was not written because the driver failed, and
\* the renderer is about to write its next frame.
C20_Witness ==
    /\ Returned("main", "start", "ESP_OK")
    /\ callers["main"].arg = RepeatingBlink
    /\ strip_ok
    /\ led = RGB_COLOR_OFF
    /\ \E t \in Tasks : tasks[t].pc = "frame" /\ tasks[t].step = 1

\* C21: a renderer that leaves its loop, by the loop test or by the one-shot
\* budget, first clears the pixel with the handle still as it was, then
\* marks the handle absent without writing the pixel, and is gone with that
\* step; no renderer marks the handle absent from anywhere else.
C21_ClearsBeforeMarkingAbsent ==
    [][/\ \A t \in Tasks :
            /\ (Rendering(t) /\ tasks'[t].pc \notin {"loop", "frame", "tail", "free"})
                  => /\ tasks'[t].pc = "clear"
                     /\ effect_task_handle' = effect_task_handle
                     /\ led' = led
            /\ (tasks[t].pc = "clear" /\ tasks'[t].pc # "clear" /\ callers' = callers)
                  => /\ tasks'[t].pc = "null"
                     /\ led' = IF strip_ok THEN RGB_COLOR_OFF ELSE led
                     /\ effect_task_handle' = effect_task_handle
            /\ (tasks[t].pc = "null" /\ tasks'[t].pc # "null" /\ callers' = callers)
                  => /\ tasks'[t].pc = "free"
                     /\ effect_task_handle' = NULL
                     /\ led' = led
       /\ (effect_task_handle # NULL /\ effect_task_handle' = NULL /\ callers' = callers)
             => \E t \in Tasks : tasks[t].pc = "null" /\ tasks'[t].pc = "free"]_vars

\* A one-shot renderer has spent its budget by itself and cleared the pixel
\* it had written; the handle still names it.
C21_Witness ==
    /\ Returned("main", "start", "ESP_OK")
    /\ callers["main"].status = "MQTT_RELAY_OFF"
    /\ ~effect_running
    /\ led = RGB_COLOR_OFF
    /\ \E t \in Tasks : tasks[t].pc = "null" /\ effect_task_handle = t

\* The single-pixel kind the spec has a kind for strips degrade to.
DegradesTo(cfg) ==
    [cfg EXCEPT !.effect = CASE @ = "RAINBOW_CHASE" -> "RAINBOW"
                             [] @ \in {"COLOR_WIPE", "THEATER_CHASE"} -> "BLINK"
                             [] OTHER -> @]

\* C22: every frame a renderer of RAINBOW_CHASE writes is the frame RAINBOW
\* writes at that step for the same configuration, and every frame of
\* COLOR_WIPE and THEATER_CHASE is the frame of BLINK.
C22_StripKindsDegrade ==
    [][\A t \in Tasks :
         (tasks[t].pc = "frame" /\ tasks'[t].pc = "tail" /\ strip_ok)
            => led' = FrameColor(DegradesTo(current_effect_config), tasks[t].step)]_vars

\* The edges of the link state machine.
LinkEdge(from, to) ==
    \/ <<from, to>> \in {<<"DISCONNECTED", "CONNECTING">>,
                         <<"CONNECTING", "CONNECTED">>,
                         <<"CONNECTING", "FAILED">>,
                         <<"CONNECTED", "CONNECTING">>,
                         <<"FAILED", "CONNECTING">>}
    \/ to = "DISCONNECTED"

\* C23: every change of s_wifi_state is along DISCONNECTED -> CONNECTING,
\* CONNECTING -> CONNECTED, CONNECTING -> FAILED, CONNECTED -> CONNECTING,
\* FAILED -> CONNECTING or to DISCONNECTED; CONNECTED and FAILED are entered
\* from CONNECTING only.
C23_LinkEdges ==
    [][s_wifi_state' # s_wifi_state =>
         /\ LinkEdge(s_wifi_state, s_wifi_state')
         /\ s_wifi_state' \in {"CONNECTED", "FAILED"} => s_wifi_state = "CONNECTING"]_vars

\* The link was up, dropped, and its retries have run out: every edge the
\* handler takes has been taken.
C23_Witness ==
    /\ s_wifi_state = "FAILED"
    /\ s_retry_num = MaximumRetry
    /\ wifi_bits = {WIFI_CONNECTED_BIT, WIFI_FAIL_BIT}

\* The edges of the session state machine (staying put is no move).
SessionEdge(from, to) ==
    \/ from = to
    \/ <<from, to>> \in {<<"DISCONNECTED", "CONNECTING">>,
                         <<"CONNECTING", "CONNECTED">>,
                         <<"CONNECTING", "ERROR">>}
    \/ to = "DISCONNECTED"

\* The handler that ran last went through mqtt_client_start, which sets
\* s_mqtt_state to CONNECTING before it starts the client.
StartRan(effects) ==
    \E i \in 1..Len(effects) : effects[i] = Effect("mqtt", "esp_mqtt_client_start", "")

\* C24: every change of s_mqtt_state is along DISCONNECTED -> CONNECTING,
\* CONNECTING -> CONNECTED, CONNECTING -> ERROR or to DISCONNECTED, so
\* CONNECTED and ERROR are entered from CONNECTING only.  (A handler that
\* runs mqtt_client_start makes two changes, into CONNECTING and out of it.)
C24_SessionEdges ==
    [][s_mqtt_state' # s_mqtt_state =>
         IF StartRan(log')
         THEN /\ SessionEdge(s_mqtt_state, "CONNECTING")
              /\ SessionEdge("CONNECTING", s_mqtt_state')
         ELSE SessionEdge(s_mqtt_state, s_mqtt_state')]_vars

\* C25: rgb_led_blend_colors(a, b, 0) is a and rgb_led_blend_colors(a, b, 255)
\* is b, channel by channel, and the weighted sum of a channel never leaves
\* the 16 bits its operands were cast to.
C25_BlendEndpoints ==
    calc.fn = "blend" =>
        /\ calc.in.blend_factor = 0 => calc.out = calc.in.color1
        /\ calc.in.blend_factor = 255 => calc.out = calc.in.color2
        /\ \A i \in 1..3 :
             BlendSum(calc.in.color1[i], calc.in.color2[i], calc.in.blend_factor) < 65536

\* A blend with factor 255 of a colour with another one, both with channels
\* that differ, has returned the second colour.
C25_Witness ==
    /\ calc.fn = "blend"
    /\ calc.in.blend_factor = 255
    /\ calc.in.color1 = <<200, 123, 55>>
    /\ calc.in.color2 = <<1, 128, 254>>
    /\ calc.out = <<1, 128, 254>>

\* C26: apply_brightness(c, 255) is c, and for every brightness b each
\* channel of apply_brightness(c, b) is channel * b / 255 rounded down, which
\* is never more than the channel.
C26_ScaleBrightness ==
    calc.fn = "apply_brightness" =>
        /\ calc.in.brightness = 255 => calc.out = calc.in.color
        /\ \A i \in 1..3 :
             /\ calc.out[i] = (calc.in.color[i] * calc.in.brightness) \div 255
             /\ calc.out[i] <= calc.in.color[i]

\* A colour with three different channels has been scaled to half.
C26_Witness ==
    /\ calc.fn = "apply_brightness"
    /\ calc.in.brightness = 128
    /\ calc.in.color = <<200, 123, 55>>
    /\ calc.out = <<100, 61, 27>>

\* C27: rgb_led_hsv_to_rgb(h, 0, v) is the grey (v, v, v) for every hue h in
\* 0..359 and every value v.
C27_GreyAtZeroSaturation ==
    (calc.fn = "hsv_to_rgb" /\ calc.in.saturation = 0)
        => calc.out = <<calc.in.value, calc.in.value, calc.in.value>>

\* A hue of the last sector with saturation 0 has given grey.
C27_Witness ==
    /\ calc.fn = "hsv_to_rgb"
    /\ calc.in = [hue |-> 359, saturation |-> 0, value |-> 77]
    /\ calc.out = <<77, 77, 77>>

\* The most a channel moves when the hue moves by one within a sector: the
\* remainder moves by 6, and the channel by value * saturation * 6 / 65536,
\* up to rounding.
HueStep(saturation, value) == (6 * saturation * value) \div 65536 + 2

Distance(x, y) == IF x < y THEN y - x ELSE x - y

\* C28: rgb_led_hsv_to_rgb is continuous around the hue circle: the colours
\* of hue h and of hue h + 1 (hue 0 after 359) differ on each channel by no
\* more than one hue step.
C28_HueContinuous ==
    calc.fn = "hsv_to_rgb" =>
        LET next == rgb_led_hsv_to_rgb((calc.in.hue + 1) % 360,
                                       calc.in.saturation, calc.in.value)
        IN  \A i \in 1..3 :
              Distance(calc.out[i], next[i])
                 <= HueStep(calc.in.saturation, calc.in.value)

\* C29: a renderer uses one configuration for its whole life: every frame it
\* computes, it computes from the config that was installed when it was
\* spawned, and current_effect_config is not written while a renderer is in
\* its loop.
C29_RendererKeepsItsConfig ==
    [][/\ \A t \in Tasks :
            (tasks[t].pc = "frame" /\ tasks'[t].pc = "tail")
               => current_effect_config = tasks[t].born
       /\ current_effect_config' # current_effect_config
             => \A t \in Tasks : ~Rendering(t)]_vars

\* C30: rgb_led_stop_effect polls only while the handle is present and stops
\* polling as soon as it is absent; it goes on to the forced termination
\* only with the handle still present after all 50 polls, so a renderer is
\* terminated by force only then, and one that has marked the handle absent
\* during the wait is left alone.
C30_ForceOnlyAfterFullWait ==
    [][\A c \in DOMAIN callers :
         /\ (callers[c].pc = "stop188" /\ callers'[c] # callers[c])
               => IF effect_task_handle # NULL /\ callers[c].retry_count < StopRetryLimit
                  THEN /\ callers'[c].pc = "stop188"
                       /\ callers'[c].retry_count = callers[c].retry_count + 1
                  ELSE /\ callers'[c].pc = "stop194"
                       /\ callers'[c].retry_count = callers[c].retry_count
         /\ (callers[c].pc = "stop194" /\ callers'[c].pc = "stop195")
               => /\ effect_task_handle # NULL
                  /\ callers[c].retry_count = StopRetryLimit
         /\ (callers[c].pc = "stop194" /\ effect_task_handle = NULL)
               => callers'[c].pc # "stop195"
         /\ (callers[c].pc = "stop195" /\ callers'[c].pc # "stop195")
               => /\ callers[c].retry_count = StopRetryLimit
                  /\ \A t \in Tasks :
                       (Alive(t) /\ tasks'[t].pc = "free") => t = callers[c].h]_vars

\* The renderer did not leave within the 50 polls and has been terminated
\* by force.
C30_Witness ==
    /\ callers["main"].pc = "stop196"
    /\ callers["main"].retry_count = StopRetryLimit
    /\ AliveTasks(tasks) = {}
    /\ effect_task_handle # NULL
    /\ ~panic

\* Where a caller is while it holds effect_mutex inside rgb_led_start_effect
\* (lines 153-169: config install and spawn).
InstallAndSpawn == {"start157", "start160", "start169"}

C32_RunningIffHandle ==
    (\A c \in DOMAIN callers : callers[c].pc = "idle")
       => /\ effect_running <=> effect_task_handle # NULL
          /\ effect_running => AliveTasks(tasks) # {}

\* C33: between handlers, while the session state is not CONNECTED the
\* status last applied to the indicator is not one of the two
\* broker-connected statuses.
C33_NoBrokerColourWithoutSession ==
    s_mqtt_state # "CONNECTED" => applied \notin {"MQTT_RELAY_ON", "MQTT_RELAY_OFF"}

\* The step is a run of the handler for the link event id.
LinkHandled(id) ==
    /\ log' # <<>>
    /\ log'[1] = Event("wifi", id)
    /\ <<s_wifi_state, s_retry_num, wifi_bits, log>>' # <<s_wifi_state, s_retry_num, wifi_bits, log>>

\* How many times the handler that logged effects called esp_wifi_connect.
Reconnects(effects) ==
    Cardinality({i \in 1..Len(effects) : effects[i] = Effect("wifi", "esp_wifi_connect", "")})

\* C34: s_retry_num stays within 0..CONFIG_ESP_MAXIMUM_RETRY.  A disconnect
\* event handled with the counter below the maximum calls esp_wifi_connect
\* once, adds one to the counter and reports CONNECTING; handled with the
\* counter at the maximum it calls no esp_wifi_connect and reports FAILED, and
\* FAILED is reported by no other step; the got-IP event sets the counter to
\* 0 and reports CONNECTED.
C34_RetryCounter ==
    /\ [](s_retry_num \in 0..MaximumRetry)
    /\ [][LinkHandled("STA_DISCONNECTED") =>
            IF s_retry_num < MaximumRetry
            THEN /\ Reconnects(log') = 1
                 /\ s_retry_num' = s_retry_num + 1
                 /\ s_wifi_state' = "CONNECTING"
                 /\ Applies(log') = <<"CONNECTING">>
            ELSE /\ Reconnects(log') = 0
                 /\ s_retry_num' = s_retry_num
                 /\ s_wifi_state' = "FAILED"
                 /\ Applies(log') = <<"ERROR">>]_vars
    /\ [][(s_wifi_state' = "FAILED" /\ s_wifi_state # "FAILED")
             => LinkHandled("STA_DISCONNECTED") /\ s_retry_num = MaximumRetry]_vars
    /\ [][LinkHandled("GOT_IP") =>
            /\ s_retry_num' = 0
            /\ s_wifi_state' = "CONNECTED"
            /\ Applies(log')[1] = "WIFI_CONNECTED"]_vars

\* The link never came up: every retry was used and the last disconnect
\* event reported FAILED.
C34_Witness ==
    /\ s_wifi_state = "FAILED"
    /\ s_retry_num = MaximumRetry
    /\ wifi_bits = {WIFI_FAIL_BIT}
    /\ log = <<Event("wifi", "STA_DISCONNECTED")>> \o update_rgb_status_led("ERROR")

\* C35: when wifi_manager_wait_for_connection returns, ESP_OK means the link
\* is CONNECTED, ESP_FAIL means the link is FAILED, and ESP_ERR_TIMEOUT means
\* that neither bit was set.
C35_WaitResultMatchesLink ==
    [][(app_main.pc = "361" /\ app_main'.pc = "loop") =>
          /\ app_main'.wait_result = "ESP_OK" => s_wifi_state = "CONNECTED"
          /\ app_main'.wait_result = "ESP_FAIL" => s_wifi_state = "FAILED"
          /\ app_main'.wait_result = "ESP_ERR_TIMEOUT" => wifi_bits = {}]_vars

\* The messages the handler that logged effects handed to the broker client.
Published(effects) == {i \in 1..Len(effects) : effects[i].kind = "publish"}

\* The step is a call of a publisher, or a round of the heartbeat.
PublisherRan(source) ==
    /\ log' # <<>>
    /\ log'[1].kind = "event"
    /\ log'[1].topic = source
    /\ app_main' = app_main

\* C36: mqtt_publish_message, mqtt_publish_status and
\* mqtt_publish_relay_state hand a message to the client only if the client
\* is initialised and s_mqtt_state is CONNECTED; otherwise they return
\* ESP_FAIL and hand over nothing.  A heartbeat round publishes nothing while
\* s_mqtt_state is not CONNECTED.
C36_PublishOnlyWhenConnected ==
    [][/\ PublisherRan("call") =>
            IF client # "none" /\ s_mqtt_state = "CONNECTED"
            THEN Cardinality(Published(log')) = 1
            ELSE /\ Published(log') = {}
                 /\ log'[Len(log')].kind = "return"
                 /\ log'[Len(log')].data = "ESP_FAIL"
       /\ (PublisherRan("heartbeat") /\ s_mqtt_state # "CONNECTED")
             => Published(log') = {}]_vars

\* mqtt_publish_status was called with the session in ERROR and returned
\* ESP_FAIL.
C36_Witness ==
    /\ s_mqtt_state = "ERROR"
    /\ client # "none"
    /\ log = <<Event("call", "mqtt_publish_status"),
               Effect("return", "mqtt_publish_status", "ESP_FAIL")>>

\* The message is a relay command: its topic is the relay command topic and
\* its payload is exactly "on" or exactly "off".
RelayCommand(msg) ==
    /\ msg.topic = "relay/set"
    /\ msg.data \in {<<"o", "n">>, <<"o", "f", "f">>}

Requested(msg) == IF msg.data = <<"o", "n">> THEN "ON" ELSE "OFF"

\* C37: a broker message changes s_relay_state only if it is a relay command
\* for another state than the current one; any other message leaves the
\* relay as it is, publishes nothing and applies no status.  When the relay
\* changes, the status is composed again, and that before any publish of the
\* new state.
C37_OnlyRelayCommandsChangeRelay ==
    [][\A msg \in Messages, gpio_ok \in BOOLEAN :
          MqttEventData(msg, gpio_ok) =>
             LET commanded == RelayCommand(msg) /\ Requested(msg) # s_relay_state
             IN  /\ s_relay_state' # s_relay_state => commanded
                 /\ ~commanded => /\ s_relay_state' = s_relay_state
                                  /\ Published(log') = {}
                                  /\ Applies(log') = <<>>
                 /\ s_relay_state' # s_relay_state =>
                       /\ s_relay_state' = Requested(msg)
                       /\ Len(Applies(log')) = 1
                       /\ \A i \in Published(log') :
                             /\ log'[i].topic = "relay/state"
                             /\ \E j \in 1..(i - 1) : log'[j].kind = "apply"]_vars

\* The step is a call of a function of relay_control.c.
RelayCalled ==
    /\ Len(log') = 3
    /\ log'[1].kind = "event" /\ log'[1].topic = "call"
    /\ log'[2].kind = "request"
    /\ app_main' = app_main
    /\ <<log, s_relay_state>>' # <<log, s_relay_state>>

\* C38: what relay_control_get_state returns is the level last written to
\* the pin with success (OFF after init).  relay_control_set_state records
\* the requested state if the write succeeds and leaves the record alone if
\* it fails; relay_control_toggle requests the opposite of the record, so a
\* successful toggle flips it.
C38_RecordedIsLastWritten ==
    /\ [](s_relay_state = relay_pin)
    /\ [][RelayCalled =>
            LET requested == log'[2].data
                res == log'[3].data
            IN  /\ res = "ESP_OK" => s_relay_state' = requested
                /\ res # "ESP_OK" => s_relay_state' = s_relay_state
                /\ log'[1].data = "relay_control_toggle"
                      => /\ requested # s_relay_state
                         /\ res = "ESP_OK" => s_relay_state' # s_relay_state]_vars

\* The relay was switched on, and a toggle whose pin write failed has left
\* it on.
C38_Witness ==
    /\ s_relay_state = "ON"
    /\ relay_pin = "ON"
    /\ log = <<Event("call", "relay_control_toggle"), Effect("request", "relay", "OFF"),
               Effect("return", "relay_control_toggle", "ESP_FAIL")>>

\* Caller c is blocked in xSemaphoreTake (line 109 or line 153).
Waiting(c) == callers[c].pc \in {"start153", "color109"}

\* C39: a caller that has taken effect_mutex is inside the operation that
\* took it and ahead of its xSemaphoreGive, and it does not leave the
\* operation with the mutex held; no renderer ever holds the mutex, so the
\* forced termination of one leaves the mutex as it was; and a caller
\* waiting for the mutex gets it (unless the system has aborted).
C39_LockAlwaysReleased ==
    /\ [](effect_mutex \in DOMAIN callers \cup {NoHolder})
    /\ [](\A c \in DOMAIN callers :
            effect_mutex = c => callers[c].pc \in InstallAndSpawn \cup {"color111"})
    /\ [][\A c \in DOMAIN callers :
            /\ (effect_mutex = c /\ callers'[c].pc \notin InstallAndSpawn \cup {"color111"})
                  => effect_mutex' = NoHolder
            /\ (callers[c].pc = "stop195" /\ callers'[c].pc # "stop195")
                  => effect_mutex' = effect_mutex /\ effect_mutex # c]_vars
    /\ \A c \in LockCallers : Waiting(c) ~> (~Waiting(c) \/ panic)

\* The link callback has just terminated a renderer by force while the other
\* task holds the mutex for its pixel write.
C39_Witness ==
    /\ callers["sys_evt"].pc = "stop196"
    /\ AliveTasks(tasks) = {}
    /\ callers["mqtt"].pc = "color111"
    /\ effect_mutex = "mqtt"

\* C40: when xTaskCreate fails inside rgb_led_start_effect the call returns
\* an error (ESP_ERR_NO_MEM), and from its return until the next call no
\* renderer is alive, the handle is NULL and effect_running is false: the
\* effect that ran before has been stopped and nothing has replaced it.
C40_FailedSpawnLeavesNothing ==
    /\ [][\A c \in DOMAIN callers :
            /\ (callers[c].pc = "start160" /\ callers'[c].pc # "start160"
                  /\ ~callers'[c].created)
                  => /\ tasks' = tasks
                     /\ effect_task_handle' = effect_task_handle
            /\ (callers[c].pc \in {"start169", "start172"} /\ ~callers[c].created
                  /\ callers'[c] # callers[c])
                  => \/ callers'[c].pc = "start172"
                     \/ Returns(c, "start") /\ callers'[c].res = "ESP_ERR_NO_MEM"]_vars
    /\ [](\A c \in DOMAIN callers :
            Returned(c, "start", "ESP_ERR_NO_MEM")
               => /\ AliveTasks(tasks) = {}
                  /\ effect_task_handle = NULL
                  /\ ~effect_running)

\* A status was applied while an effect was running, the effect was stopped,
\* and the spawn of the new renderer failed.
C40_Witness ==
    /\ Returned("main", "start", "ESP_ERR_NO_MEM")
    /\ callers["main"].found
    /\ callers["main"].status = "WIFI_CONNECTED"
    /\ current_effect_config = StatusConfig("WIFI_CONNECTED")

====
